---------------------------- MODULE Spec2Model ----------------------------
(***************************************************************************)
(* A model of the domain and IPv4 validators of the `validators` crate.    *)
(*                                                                         *)
(* A Rust `str` is modelled as the sequence of its UTF-8 bytes; a byte is  *)
(* written as a TLA+ string ("a", ".", "xE2", ...).  All offsets are byte  *)
(* offsets counted from 0, as in the source.                               *)
(***************************************************************************)
EXTENDS Integers, Sequences, FiniteSets, TLC

VARIABLES validator, input, out

vars == <<validator, input, out>>

---------------------------------------------------------------------------
(* Bytes and strings                                                       *)

\* Continuation bytes of the multi-byte characters of the alphabet
\* (U+20AC, the euro sign, is xE2 x82 xAC in UTF-8).
IsContinuation(b) == b \in {"x82", "xAC"}

EuroChar == <<"xE2", "x82", "xAC">>

\* Representatives of the control range \x00-\x1F, and DEL.
ControlBytes == {"x00", "x0A", "x1F"}

Digits == <<"0", "1", "2", "3", "4", "5", "6", "7", "8", "9">>

IsDigit(b) == \E i \in 1..10 : Digits[i] = b

DigitValue(b) == (CHOOSE i \in 1..10 : Digits[i] = b) - 1

UpperCase == <<"A", "C", "H", "L", "O", "S", "T">>

LowerCase == <<"a", "c", "h", "l", "o", "s", "t">>

\* str::to_lowercase, on the letters of the alphabet.
to_lowercase(s) ==
    [i \in 1..Len(s) |->
        IF \E k \in 1..Len(UpperCase) : UpperCase[k] = s[i]
        THEN LowerCase[CHOOSE k \in 1..Len(UpperCase) : UpperCase[k] = s[i]]
        ELSE s[i]]

\* The number of characters (not bytes) of the bytes a+1..b of s.
CharCount(s, a, b) == Cardinality({i \in (a + 1)..b : ~IsContinuation(s[i])})

\* Rust's s[a..b]: the bytes at offsets a .. b-1.
Slice(s, a, b) == SubSeq(s, a + 1, b)

U16Max == 65535

RECURSIVE DecimalValue(_)
DecimalValue(ds) ==
    IF Len(ds) = 0 THEN 0
    ELSE 10 * DecimalValue(SubSeq(ds, 1, Len(ds) - 1)) + DigitValue(ds[Len(ds)])

None == [some |-> FALSE, v |-> <<>>]

Some(x) == [some |-> TRUE, v |-> x]

\* str::parse::<u16>() of a string of ASCII digits: the value, or an error
\* when it does not fit in 16 bits.
parse_u16(ds) ==
    IF Len(ds) >= 1 /\ (\A i \in 1..Len(ds) : IsDigit(ds[i]))
          /\ DecimalValue(ds) <= U16Max
    THEN Some(DecimalValue(ds))
    ELSE None

\* u16::to_string(): the decimal text, no leading zeros.
RECURSIVE to_string(_)
to_string(n) ==
    IF n < 10 THEN <<Digits[n + 1]>>
    ELSE to_string(n \div 10) \o <<Digits[(n % 10) + 1]>>

---------------------------------------------------------------------------
(* ValidatorOption                                                         *)

ValidatorOption == {"Must", "Allow", "NotAllow"}

allow(o) == o \in {"Must", "Allow"}

not_allow(o) == o = "NotAllow"

must(o) == o = "Must"

---------------------------------------------------------------------------
(* DOMAIN_RE                                                               *)

LabelMax == 63

PortDigitsMax == 5

\* [^\x00-\x1F\x2E\x2F\x3A\x40\x7F]
InLabelClass(b) == b \notin (ControlBytes \cup {".", "/", ":", "@", "x7F"})

NoMatch == [start |-> 0, end |-> 0, some |-> FALSE]

Match(a, b) == [start |-> a, end |-> b, some |-> TRUE]

NoCaptures == [matched |-> FALSE, g1 |-> NoMatch, g3 |-> NoMatch,
               g4 |-> NoMatch, g5 |-> NoMatch]

(***************************************************************************)
(* The captures of                                                         *)
(*   ^((L\.)*?)*?(L)(\.L)?(:\d{1,5})?$      with L = [class]{1,63}         *)
(* on s.  L contains neither "." nor ":", so the text splits in only one   *)
(* way into a host and a port suffix (at the first ":") and the host into  *)
(* labels (at its dots).  The lazy prefix takes as few labels as lets the  *)
(* rest match, and group 4 is greedy: with one label group 3 is the label  *)
(* and groups 1 and 4 do not participate; with two, group 3 is the first   *)
(* and group 4 the second, group 1 not participating; with more, group 1   *)
(* participates (its span is the last "label." of the prefix; the code     *)
(* reads only whether it participates) and groups 3 and 4 are the last two *)
(* labels.                                                                 *)
(***************************************************************************)
DOMAIN_RE(s) ==
    LET n      == Len(s)
        colons == {i \in 1..n : s[i] = ":"}
        \* h: the length of the host part
        h      == IF colons = {} THEN n
                  ELSE (CHOOSE i \in colons : \A j \in colons : i <= j) - 1
        portOk == h = n
                  \/ (/\ n - (h + 1) \in 1..PortDigitsMax
                      /\ \A i \in (h + 2)..n : IsDigit(s[i]))
        dots   == {i \in 1..h : s[i] = "."}
        \* label boundaries, as byte offsets of the separators
        cuts   == {0} \cup dots \cup {h + 1}
        next(c) == CHOOSE d \in cuts : d > c /\ \A e \in cuts : e > c => d <= e
        labelsOk ==
            /\ \A i \in 1..h : s[i] = "." \/ InLabelClass(s[i])
            /\ \A c \in cuts \ {h + 1} :
                  /\ next(c) - c >= 2
                  /\ CharCount(s, c, next(c) - 1) \in 1..LabelMax
        last   == IF dots = {} THEN 0
                  ELSE CHOOSE i \in dots : \A j \in dots : j <= i
        before == {i \in dots : i < last}
        prev   == IF before = {} THEN 0
                  ELSE CHOOSE i \in before : \A j \in before : j <= i
        before2 == {i \in dots : i < prev}
        prev2  == IF before2 = {} THEN 0
                  ELSE CHOOSE i \in before2 : \A j \in before2 : j <= i
    IN  IF ~(h >= 1 /\ portOk /\ labelsOk) THEN NoCaptures
        ELSE [matched |-> TRUE,
              g1 |-> IF Cardinality(dots) >= 2 THEN Match(prev2, prev)
                     ELSE NoMatch,
              g3 |-> IF dots = {} THEN Match(0, h) ELSE Match(prev, last - 1),
              g4 |-> IF dots = {} THEN NoMatch ELSE Match(last - 1, h),
              g5 |-> IF h = n THEN NoMatch ELSE Match(h, n)]

---------------------------------------------------------------------------
(* Domain                                                                  *)

Ok(x) == [ok |-> TRUE, err |-> "", v |-> x]

Err(e, x) == [ok |-> FALSE, err |-> e, v |-> x]

Domain(tld, dom, port, port_index, full_domain_len, is_localhost) ==
    [top_level_domain |-> tld, domain |-> dom, port |-> port,
     port_index |-> port_index, full_domain |-> <<>>,
     full_domain_len |-> full_domain_len, is_localhost |-> is_localhost]

NoDomain == Domain(0, 0, 0, 0, 0, FALSE)

DomainErr(e) == Err(e, NoDomain)

\* A panic: the call returns no value.
DomainPanic == Err("panic", NoDomain)

localhost == <<"l", "o", "c", "a", "l", "h", "o", "s", "t">>

HostMax == 255

\* A mutation of top_level_domain_index: the end of the match, not its start.
top_level_domain_index_end(m4, full_domain_len) ==
    IF m4.some THEN m4.end + 1 ELSE full_domain_len

\* The offset stored as top_level_domain: one past the dot of group 4, or
\* the length of the input when group 4 does not participate.
top_level_domain_index(m4, full_domain_len) ==
    IF m4.some THEN m4.start + 1 ELSE full_domain_len

\* The offset stored as port_index: one past the colon of group 5, or the
\* length of the input when group 5 does not participate.
port_index_of(m5, full_domain_len) ==
    IF m5.some THEN m5.start + 1 ELSE full_domain_len

\* A mutation of is_localhost_label: every label counts as "localhost".
is_localhost_label_any(full_domain, m3) == m3.some

\* Whether the label of group 3 is "localhost", whatever its case.
is_localhost_label(full_domain, m3) ==
    localhost = to_lowercase(Slice(full_domain, m3.start, m3.end))

\* The digits of group 5, after its colon, parsed as a u16.
port_digits(full_domain, m5) ==
    parse_u16(Slice(full_domain, m5.start + 1, m5.end))

\* A mutation of is_localhost_after_tld: the flag survives a top-level
\* domain.
is_localhost_kept(m4, is_localhost0) == is_localhost0

\* The flag after the match of group 4: the code clears it when the group
\* participates.
is_localhost_after_tld(m4, is_localhost0) == ~m4.some /\ is_localhost0

\* The checks of parse_inner in the order of the source, on the captures c;
\* is_localhost0 is the flag computed from group 3 and parsed the port.
parse_checked(v, full_domain, c, is_localhost0, parsed) ==
    IF ~c.matched THEN DomainErr("IncorrectFormat")
    \* unreachable!(): group 3 is in every match
    ELSE IF ~c.g3.some THEN DomainPanic
    ELSE IF must(v.localhost) /\ ~is_localhost0
        THEN DomainErr("LocalhostNotFound")
    ELSE IF c.g3.end > HostMax THEN DomainErr("IncorrectFormat")
    ELSE IF c.g4.some /\ is_localhost0 /\ must(v.localhost)
        THEN DomainErr("LocalhostNotFound")
    ELSE IF c.g4.some /\ c.g4.end > HostMax THEN DomainErr("IncorrectFormat")
    ELSE IF ~c.g4.some /\ is_localhost0 /\ not_allow(v.localhost)
        THEN DomainErr("LocalhostNotAllow")
    ELSE IF ~c.g4.some /\ ~is_localhost0 THEN DomainErr("IncorrectFormat")
    ELSE IF c.g1.some /\ is_localhost_after_tld(c.g4, is_localhost0)
        THEN DomainErr("LocalhostNotFound")
    ELSE IF c.g5.some /\ not_allow(v.port) THEN DomainErr("PortNotAllow")
    ELSE IF c.g5.some /\ ~parsed.some THEN DomainErr("IncorrectPort")
    ELSE IF ~c.g5.some /\ must(v.port) THEN DomainErr("PortNotFound")
    ELSE Ok(Domain(top_level_domain_index(c.g4, Len(full_domain)), c.g3.start,
                   IF c.g5.some THEN parsed.v ELSE 0,
                   port_index_of(c.g5, Len(full_domain)), Len(full_domain),
                   is_localhost_after_tld(c.g4, is_localhost0)))

parse_captures(v, full_domain, c) ==
    parse_checked(v, full_domain, c, is_localhost_label(full_domain, c.g3),
                  port_digits(full_domain, c.g5))

\* DomainValidator::parse_inner
parse_inner(v, full_domain) == parse_captures(v, full_domain, DOMAIN_RE(full_domain))

\* A mutation of is_domain: the match alone, whatever the policy.
is_domain_match_only(v, full_domain) == DOMAIN_RE(full_domain).matched

is_domain(v, full_domain) == parse_inner(v, full_domain).ok

\* The descriptor of parse_inner with the owned input as its buffer.
own(domain_inner, full_domain) ==
    IF ~domain_inner.ok THEN domain_inner
    ELSE Ok([domain_inner.v EXCEPT !.full_domain = full_domain])

\* parse_string: the owned input becomes the descriptor's buffer.
parse_string(v, full_domain) == own(parse_inner(v, full_domain), full_domain)

\* The descriptor of parse_inner with the borrowed input appended to its
\* empty buffer.
push_str(domain_inner, full_domain) ==
    IF ~domain_inner.ok THEN domain_inner
    ELSE Ok([domain_inner.v EXCEPT
                !.full_domain = domain_inner.v.full_domain \o full_domain])

\* A mutation of parse_str: the input is never copied into the buffer.
parse_str_no_push(v, full_domain) == parse_inner(v, full_domain)

\* parse_str
parse_str(v, full_domain) == push_str(parse_inner(v, full_domain), full_domain)

(* The accessors of Domain. *)

\* A mutation of get_top_level_domain: the offset is compared with
\* port_index, not with the length.
get_top_level_domain_to_port(d) ==
    IF d.top_level_domain # d.port_index
    THEN Some(Slice(d.full_domain, d.top_level_domain, Len(d.full_domain)))
    ELSE None

get_top_level_domain(d) ==
    IF d.top_level_domain # d.full_domain_len
    THEN IF d.port_index # d.full_domain_len
         THEN Some(Slice(d.full_domain, d.top_level_domain, d.port_index - 1))
         ELSE Some(Slice(d.full_domain, d.top_level_domain, Len(d.full_domain)))
    ELSE None

\* A mutation of get_domain: the slice ends at the offset of the
\* top-level label, so it keeps the dot.
get_domain_keeps_dot(d) ==
    IF d.top_level_domain # d.full_domain_len
    THEN Slice(d.full_domain, d.domain, d.top_level_domain)
    ELSE IF d.port_index # d.full_domain_len
         THEN Slice(d.full_domain, d.domain, d.port_index - 1)
         ELSE Slice(d.full_domain, d.domain, Len(d.full_domain))

get_domain(d) ==
    IF d.top_level_domain # d.full_domain_len
    THEN Slice(d.full_domain, d.domain, d.top_level_domain - 1)
    ELSE IF d.port_index # d.full_domain_len
         THEN Slice(d.full_domain, d.domain, d.port_index - 1)
         ELSE Slice(d.full_domain, d.domain, Len(d.full_domain))

get_sub_domain(d) ==
    IF d.domain > 0 THEN Some(Slice(d.full_domain, 0, d.domain - 1)) ELSE None

get_full_domain(d) == d.full_domain

\* A mutation of get_full_domain_without_port: the slice keeps the colon.
get_full_domain_without_port_keeps_colon(d) ==
    IF d.port_index # d.full_domain_len
    THEN Slice(d.full_domain, 0, d.port_index)
    ELSE d.full_domain

get_full_domain_without_port(d) ==
    IF d.port_index # d.full_domain_len
    THEN Slice(d.full_domain, 0, d.port_index - 1)
    ELSE d.full_domain

get_port(d) == IF d.port_index # d.full_domain_len THEN Some(d.port) ELSE None

is_localhost(d) == d.is_localhost

\* Rust's s[a..b] panics unless a <= b <= len and both offsets fall on
\* character boundaries.
IsCharBoundary(s, i) ==
    i = 0 \/ i = Len(s) \/ (i > 0 /\ i < Len(s) /\ ~IsContinuation(s[i + 1]))

SliceInBounds(s, a, b) ==
    a <= b /\ b <= Len(s) /\ IsCharBoundary(s, a) /\ IsCharBoundary(s, b)

(* The accessors of Domain: when their slice panics. *)

get_top_level_domain_panics(d) ==
    /\ d.top_level_domain # d.full_domain_len
    /\ IF d.port_index # d.full_domain_len
       THEN ~SliceInBounds(d.full_domain, d.top_level_domain, d.port_index - 1)
       ELSE ~SliceInBounds(d.full_domain, d.top_level_domain, Len(d.full_domain))

get_domain_panics(d) ==
    IF d.top_level_domain # d.full_domain_len
    THEN ~SliceInBounds(d.full_domain, d.domain, d.top_level_domain - 1)
    ELSE IF d.port_index # d.full_domain_len
         THEN ~SliceInBounds(d.full_domain, d.domain, d.port_index - 1)
         ELSE ~SliceInBounds(d.full_domain, d.domain, Len(d.full_domain))

get_sub_domain_panics(d) ==
    d.domain > 0 /\ ~SliceInBounds(d.full_domain, 0, d.domain - 1)

get_full_domain_without_port_panics(d) ==
    /\ d.port_index # d.full_domain_len
    /\ ~SliceInBounds(d.full_domain, 0, d.port_index - 1)

\* get_port() of DomainLocalhostableWithPort and
\* DomainUnlocalhostableWithPort: Option::unwrap panics on None.
get_port_unwrap_panics(d) == ~get_port(d).some

---------------------------------------------------------------------------
(* The inputs of the model                                                 *)

MaxLabels == 3

Rep(cs, n) == [i \in 1..(n * Len(cs)) |-> cs[((i - 1) % Len(cs)) + 1]]

PlainLabels == {<<"a">>, <<"b", "c">>}

LocalLabels == {localhost, <<"L", "o", "c", "a", "l", "H", "o", "s", "t">>}

\* A label of the greatest length, one character longer, and one of the
\* greatest length in three-byte characters.
LongLabels == {Rep(<<"x">>, LabelMax), Rep(<<"x">>, LabelMax + 1),
               Rep(EuroChar, LabelMax)}

Labels == PlainLabels \cup LocalLabels \cup LongLabels

\* The labels tried in front of the last two.
SubLabels == {<<"a">>, Rep(EuroChar, LabelMax)}

RECURSIVE Join(_)
Join(ls) ==
    IF Len(ls) = 0 THEN <<>>
    ELSE IF Len(ls) = 1 THEN ls[1]
    ELSE ls[1] \o <<".">> \o Join(Tail(ls))

LabelSeqs ==
    UNION {{f \in [1..k -> Labels] : \A i \in 1..(k - 2) : f[i] \in SubLabels}
              : k \in 1..MaxLabels}

MalformedHosts == {<<>>, <<"a", ".">>, <<".", "a">>, <<"a", ".", ".", "a">>,
                   <<"a", "/", "b">>, <<"a", "x0A">>}

Hosts == {Join(f) : f \in LabelSeqs} \cup MalformedHosts

PortSuffixes == {<<>>, <<":", "8", "0">>, <<":", "0", "8", "0">>,
                 <<":", "6", "5", "5", "3", "5">>,
                 <<":", "6", "5", "5", "3", "6">>,
                 <<":", "1", "2", "3", "4", "5", "6">>, <<":">>}

DomainInputs == {h \o p : h \in Hosts, p \in PortSuffixes}

DomainValidators == [port : ValidatorOption, localhost : ValidatorOption]

---------------------------------------------------------------------------
(* The domain validator as a state machine: a validator is built, then its *)
(* three entry points are called on an input, in any order.                *)

NotCalled == [called |-> FALSE, r |-> DomainErr("")]

Called(r) == [called |-> TRUE, r |-> r]

InitDomain ==
    /\ validator \in DomainValidators
    /\ input \in DomainInputs
    /\ out = [parse_string |-> NotCalled, parse_str |-> NotCalled,
              is_domain |-> NotCalled]

ParseString ==
    /\ validator \in DomainValidators
    /\ ~out.parse_string.called
    /\ out' = [out EXCEPT !.parse_string = Called(parse_string(validator, input))]
    /\ UNCHANGED <<validator, input>>

ParseStr ==
    /\ validator \in DomainValidators
    /\ ~out.parse_str.called
    /\ out' = [out EXCEPT !.parse_str = Called(parse_str(validator, input))]
    /\ UNCHANGED <<validator, input>>

IsDomain ==
    /\ validator \in DomainValidators
    /\ "is_domain" \in DOMAIN out
    /\ ~out.is_domain.called
    /\ out' = [out EXCEPT !.is_domain = Called(is_domain(validator, input))]
    /\ UNCHANGED <<validator, input>>

NextDomain == ParseString \/ ParseStr \/ IsDomain

SpecDomain == InitDomain /\ [][NextDomain]_vars

---------------------------------------------------------------------------
(* The wrapper types of Domain: one type per fixed policy                  *)

\* extend!(name, port, localhost)
DomainWrapperPolicy ==
    [DomainLocalhostableWithPort      |-> [port |-> "Must", localhost |-> "Allow"],
     DomainLocalhostableAllowPort     |-> [port |-> "Allow", localhost |-> "Allow"],
     DomainLocalhostableWithoutPort   |-> [port |-> "NotAllow", localhost |-> "Allow"],
     DomainUnlocalhostableWithPort    |-> [port |-> "Must", localhost |-> "NotAllow"],
     DomainUnlocalhostableAllowPort   |-> [port |-> "Allow", localhost |-> "NotAllow"],
     DomainUnlocalhostableWithoutPort |-> [port |-> "NotAllow", localhost |-> "NotAllow"]]

DomainWrappers == DOMAIN DomainWrapperPolicy

create_validator(X) == DomainWrapperPolicy[X]

\* X::from_string and X::from_str: the wrapped value is the Domain.
from_string(X, full_domain) == parse_string(create_validator(X), full_domain)

from_str(X, full_domain) == parse_str(create_validator(X), full_domain)

\* A mutation of from_domain: the Must arm tests for a port that is there.
from_domain_must_inverted(X, domain) ==
    IF /\ create_validator(X).port = "Must"
       /\ domain.port_index # domain.full_domain_len
    THEN DomainErr("PortNotFound")
    ELSE IF create_validator(X).localhost = "NotAllow" /\ domain.is_localhost
    THEN DomainErr("LocalhostNotAllow")
    ELSE Ok(domain)

\* X::from_domain: the flags of the descriptor against the policy of X.
from_domain(X, domain) ==
    IF /\ create_validator(X).port = "Must"
       /\ domain.port_index = domain.full_domain_len
    THEN DomainErr("PortNotFound")
    ELSE IF /\ create_validator(X).port = "NotAllow"
            /\ domain.port_index = domain.full_domain_len
    THEN DomainErr("PortNotAllow")
    ELSE IF create_validator(X).localhost = "Must" /\ ~domain.is_localhost
    THEN DomainErr("LocalhostNotFound")
    ELSE IF create_validator(X).localhost = "NotAllow" /\ domain.is_localhost
    THEN DomainErr("LocalhostNotAllow")
    ELSE Ok(domain)

\* The inputs of the wrapper model: the hosts of short labels.
ShortLabelSeqs ==
    {f \in LabelSeqs : \A i \in DOMAIN f : f[i] \in PlainLabels \cup LocalLabels}

WrapperDomainInputs ==
    {h \o p : h \in {Join(f) : f \in ShortLabelSeqs} \cup MalformedHosts,
              p \in PortSuffixes}

\* A run of the wrapper model takes one wrapper type X; from_string and
\* from_str are applied to the input, from_domain to a descriptor that
\* parse_string or parse_str returned.
InitDomainWrappers ==
    /\ validator \in DomainValidators
    /\ input \in WrapperDomainInputs
    /\ out \in {[parse_string |-> NotCalled, parse_str |-> NotCalled,
                 wrapper |-> X, from_string |-> NotCalled,
                 from_str |-> NotCalled,
                 from_domain |-> [called |-> FALSE, domain |-> NoDomain,
                                  r |-> DomainErr("")]] : X \in DomainWrappers}

FromString ==
    /\ validator \in DomainValidators
    /\ "wrapper" \in DOMAIN out
    /\ ~out.from_string.called
    /\ out' = [out EXCEPT !.from_string = Called(from_string(out.wrapper, input))]
    /\ UNCHANGED <<validator, input>>

FromStr ==
    /\ validator \in DomainValidators
    /\ "wrapper" \in DOMAIN out
    /\ ~out.from_str.called
    /\ out' = [out EXCEPT !.from_str = Called(from_str(out.wrapper, input))]
    /\ UNCHANGED <<validator, input>>

FromDomain ==
    /\ validator \in DomainValidators
    /\ "wrapper" \in DOMAIN out
    /\ ~out.from_domain.called
    /\ \E op \in {"parse_string", "parse_str"} :
          /\ out[op].called /\ out[op].r.ok
          /\ out' = [out EXCEPT !.from_domain =
                        [called |-> TRUE, domain |-> out[op].r.v,
                         r |-> from_domain(out.wrapper, out[op].r.v)]]
    /\ UNCHANGED <<validator, input>>

NextDomainWrappers == ParseString \/ ParseStr \/ FromString \/ FromStr \/ FromDomain

SpecDomainWrappers == InitDomainWrappers /\ [][NextDomainWrappers]_vars

---------------------------------------------------------------------------
(* IPv4: the grammars                                                      *)

\* The pieces of s between the occurrences of the byte sep.
RECURSIVE Split(_, _)
Split(s, sep) ==
    IF \E i \in 1..Len(s) : s[i] = sep
    THEN LET i == CHOOSE k \in 1..Len(s) :
                      s[k] = sep /\ \A j \in 1..(k - 1) : s[j] # sep
         IN  <<SubSeq(s, 1, i - 1)>> \o Split(SubSeq(s, i + 1, Len(s)), sep)
    ELSE <<s>>

OctetMax == 255

\* A mutation of IsOctetText: one to three digits of any value.
IsOctetText_any_value(ds) ==
    /\ Len(ds) \in 1..3
    /\ \A i \in 1..Len(ds) : IsDigit(ds[i])
    /\ Len(ds) > 1 => ds[1] # "0"

\* 25[0-5]|2[0-4][0-9]|1[0-9]{1,2}|[1-9]?[0-9]: the decimal text of 0..255
\* without leading zeros.
IsOctetText(ds) ==
    /\ Len(ds) \in 1..3
    /\ \A i \in 1..Len(ds) : IsDigit(ds[i])
    /\ Len(ds) > 1 => ds[1] # "0"
    /\ DecimalValue(ds) <= OctetMax

IPv4NoCaptures == [matched |-> FALSE, g1 |-> NoMatch, g7 |-> NoMatch]

\* The captures of IPV4_RE: group 1 is the dotted quad, group 7 the digits
\* of the port suffix.
IPV4_RE(s) ==
    LET n == Len(s)
        h == IF \E i \in 1..n : s[i] = ":"
             THEN (CHOOSE i \in 1..n : s[i] = ":" /\ \A j \in 1..(i - 1) : s[j] # ":") - 1
             ELSE n
        octets == Split(SubSeq(s, 1, h), ".")
        portOk == h = n
                  \/ (/\ n - (h + 1) \in 1..PortDigitsMax
                      /\ \A i \in (h + 2)..n : IsDigit(s[i]))
    IN  IF Len(octets) = 4 /\ (\A k \in 1..4 : IsOctetText(octets[k])) /\ portOk
        THEN [matched |-> TRUE, g1 |-> Match(0, h),
              g7 |-> IF h = n THEN NoMatch ELSE Match(h + 1, n)]
        ELSE IPv4NoCaptures

HexDigits == {"0", "1", "2", "3", "4", "5", "6", "7", "8", "9",
              "a", "b", "c", "d", "e", "f", "A", "B", "C", "D", "E", "F"}

IsColonHex(s) ==
    /\ \A i \in 1..Len(s) : s[i] \in HexDigits \cup {":", "."}
    /\ \E i \in 1..Len(s) : s[i] = ":"

IPv6NoCaptures == [matched |-> FALSE, g1 |-> NoMatch, g5 |-> NoMatch]

\* The bare IPv6 grammar: group 1 is the colon-hex text, the whole input.
IPV6_RE(s) ==
    IF IsColonHex(s)
    THEN [matched |-> TRUE, g1 |-> Match(0, Len(s)), g5 |-> NoMatch]
    ELSE IPv6NoCaptures

\* The bracketed IPv6 grammar, "[" colon-hex "]" and an optional port
\* suffix: group 1 is the text in the brackets, group 5 the port digits.
IPV6_PORT_RE(s) ==
    LET n == Len(s)
        closes == {i \in 1..n : s[i] = "]"}
        close == CHOOSE i \in closes : \A j \in closes : i <= j
    IN  IF /\ n >= 1 /\ s[1] = "[" /\ closes # {}
           /\ IsColonHex(SubSeq(s, 2, close - 1))
           /\ \/ close = n
              \/ /\ n - (close + 1) \in 1..PortDigitsMax
                 /\ s[close + 1] = ":"
                 /\ \A i \in (close + 2)..n : IsDigit(s[i])
        THEN [matched |-> TRUE, g1 |-> Match(1, close - 1),
              g5 |-> IF close = n THEN NoMatch ELSE Match(close + 1, n)]
        ELSE IPv6NoCaptures

---------------------------------------------------------------------------
(* IPv4: the addresses of std::net                                         *)

\* Ipv4Addr::from_str: four decimal octets.
Ipv4Addr_from_str(s) ==
    LET octets == Split(s, ".")
    IN  IF Len(octets) = 4 /\ \A k \in 1..4 : IsOctetText(octets[k])
        THEN Some([k \in 1..4 |-> DecimalValue(octets[k])])
        ELSE None

\* Ipv4Addr::to_string
Ipv4Addr_to_string(ip) ==
    to_string(ip[1]) \o <<".">> \o to_string(ip[2]) \o <<".">>
        \o to_string(ip[3]) \o <<".">> \o to_string(ip[4])

HexValue(b) ==
    CASE b \in {"a", "A"} -> 10 [] b \in {"b", "B"} -> 11
      [] b \in {"c", "C"} -> 12 [] b \in {"d", "D"} -> 13
      [] b \in {"e", "E"} -> 14 [] b \in {"f", "F"} -> 15
      [] OTHER -> DigitValue(b)

RECURSIVE HexGroupValue(_)
HexGroupValue(hs) ==
    IF Len(hs) = 0 THEN 0
    ELSE 16 * HexGroupValue(SubSeq(hs, 1, Len(hs) - 1)) + HexValue(hs[Len(hs)])

IsHexGroup(hs) == Len(hs) \in 1..4 /\ \A i \in 1..Len(hs) : hs[i] \in HexDigits

\* The 16-bit segments written by a run of colon-separated groups, the
\* last of which may be a dotted quad; None when a group is malformed.
RECURSIVE Segments(_, _)
Segments(parts, quadAllowed) ==
    IF Len(parts) = 0 THEN Some(<<>>)
    ELSE IF Len(parts) = 1 /\ quadAllowed /\ Ipv4Addr_from_str(parts[1]).some
    THEN LET q == Ipv4Addr_from_str(parts[1]).v
         IN  Some(<<q[1] * 256 + q[2], q[3] * 256 + q[4]>>)
    ELSE IF ~IsHexGroup(parts[1]) THEN None
    ELSE LET rest == Segments(Tail(parts), quadAllowed)
         IN  IF rest.some THEN Some(<<HexGroupValue(parts[1])>> \o rest.v)
             ELSE None

\* Ipv6Addr::from_str: eight 16-bit segments from colon-hex text with at
\* most one "::" and an optional trailing dotted quad.
Ipv6Addr_from_str(s) ==
    LET n == Len(s)
        gaps == {i \in 1..(n - 1) : s[i] = ":" /\ s[i + 1] = ":"}
        g == CHOOSE i \in gaps : TRUE
        left == IF g = 1 THEN <<>> ELSE Split(SubSeq(s, 1, g - 1), ":")
        right == IF g + 1 = n THEN <<>> ELSE Split(SubSeq(s, g + 2, n), ":")
        ls == Segments(left, FALSE)
        rs == Segments(right, TRUE)
        whole == Segments(Split(s, ":"), TRUE)
    IN  IF gaps = {}
        THEN IF whole.some /\ Len(whole.v) = 8 THEN whole ELSE None
        ELSE IF Cardinality(gaps) = 1 /\ ls.some /\ rs.some
                  /\ Len(ls.v) + Len(rs.v) <= 7
        THEN Some(ls.v \o [i \in 1..(8 - Len(ls.v) - Len(rs.v)) |-> 0] \o rs.v)
        ELSE None

\* Ipv6Addr::to_ipv4: the embedded address of ::a.b.c.d and ::ffff:a.b.c.d.
to_ipv4(a) ==
    IF (\A i \in 1..5 : a[i] = 0) /\ a[6] \in {0, 65535}
    THEN Some(<<a[7] \div 256, a[7] % 256, a[8] \div 256, a[8] % 256>>)
    ELSE None

\* A mutation of is_private: all of 172/8 counts as private.
is_private_wide(ip) ==
    \/ ip[1] = 10
    \/ ip[1] = 172
    \/ ip[1] = 192 /\ ip[2] = 168

is_private(ip) ==
    \/ ip[1] = 10
    \/ ip[1] = 172 /\ ip[2] \in 16..31
    \/ ip[1] = 192 /\ ip[2] = 168

is_loopback(ip) == ip[1] = 127

is_link_local(ip) == ip[1] = 169 /\ ip[2] = 254

is_broadcast(ip) == ip = <<255, 255, 255, 255>>

is_documentation(ip) ==
    \/ ip[1] = 192 /\ ip[2] = 0 /\ ip[3] = 2
    \/ ip[1] = 198 /\ ip[2] = 51 /\ ip[3] = 100
    \/ ip[1] = 203 /\ ip[2] = 0 /\ ip[3] = 113

is_unspecified(ip) == ip = <<0, 0, 0, 0>>

is_local_ipv4(addr) ==
    \/ is_private(addr) \/ is_loopback(addr) \/ is_link_local(addr)
    \/ is_broadcast(addr) \/ is_documentation(addr) \/ is_unspecified(addr)

---------------------------------------------------------------------------
(* IPv4                                                                    *)

IPv4(ip, port, port_index, full_ipv4_len, is_local) ==
    [ip |-> ip, port |-> port, port_index |-> port_index, full_ipv4 |-> <<>>,
     full_ipv4_len |-> full_ipv4_len, is_local |-> is_local]

NoIPv4 == IPv4(<<0, 0, 0, 0>>, 0, 0, 0, FALSE)

IPv4Err(e) == Err(e, NoIPv4)

\* A panic: the call returns no value.
IPv4Panic == Err("panic", NoIPv4)

\* The value parse_inner stores in full_ipv4_len when the input matched
\* IPV4_RE.
DottedQuadLen == 1

\* The locality check that ends parse_inner.
ipv4_finish(v, ip, port, port_index, full_ipv4_len) ==
    IF must(v.local) /\ ~is_local_ipv4(ip) THEN IPv4Err("LocalNotFound")
    ELSE IF not_allow(v.local) /\ is_local_ipv4(ip) THEN IPv4Err("LocalNotAllow")
    ELSE Ok(IPv4(ip, port, port_index, full_ipv4_len, is_local_ipv4(ip)))

\* The parsed IPv6 address ipv6 checked against the ipv6 policy and reduced
\* to its embedded IPv4 address.
ipv4_embedded(v, ipv6, port, port_index) ==
    IF ~ipv6.some THEN IPv4Err("IncorrectFormat")
    ELSE IF not_allow(v.ipv6) THEN IPv4Err("IPv6NotAllow")
    ELSE IF ~to_ipv4(ipv6.v).some THEN IPv4Err("IncorrectFormat")
    ELSE ipv4_finish(v, to_ipv4(ipv6.v).v, port, port_index, 0)

\* The IPv6 address text of group 1, parsed.
ipv4_from_ipv6(v, text, port, port_index) ==
    ipv4_embedded(v, Ipv6Addr_from_str(text), port, port_index)

\* The port policy applied to the port capture m, whose digits parse to
\* parsed: the error, or "" when the policy is met.
ipv4_port_error(v, m, parsed) ==
    IF m.some /\ not_allow(v.port) THEN "PortNotAllow"
    ELSE IF m.some /\ ~parsed.some THEN "IncorrectPort"
    ELSE IF ~m.some /\ must(v.port) THEN "PortNotFound"
    ELSE ""

ipv4_port_digits(ipv4, m) == parse_u16(Slice(ipv4, m.start, m.end))

ipv4_port_value(ipv4, m) == IF m.some THEN ipv4_port_digits(ipv4, m).v ELSE 0

ipv4_dotted_address(v, ip, port, port_index) ==
    IF ~ip.some THEN IPv4Err("IncorrectFormat")
    ELSE ipv4_finish(v, ip.v, port, port_index, DottedQuadLen)

\* IPv4Validator::parse_inner, the branch of an input that matches IPV4_RE.
ipv4_parse_dotted(v, ipv4, c) ==
    IF must(v.ipv6) THEN IPv4Err("IPv6NotFound")
    ELSE IF ipv4_port_error(v, c.g7, ipv4_port_digits(ipv4, c.g7)) # ""
    THEN IPv4Err(ipv4_port_error(v, c.g7, ipv4_port_digits(ipv4, c.g7)))
    \* unreachable!(): group 1 is in every match
    ELSE IF ~c.g1.some THEN IPv4Panic
    ELSE ipv4_dotted_address(v, Ipv4Addr_from_str(Slice(ipv4, c.g1.start, c.g1.end)),
                             ipv4_port_value(ipv4, c.g7),
                             IF c.g7.some THEN c.g7.start ELSE Len(ipv4))

ipv4_bracketed_captures(v, ipv4, c) ==
    IF ~c.matched THEN IPv4Err("IncorrectFormat")
    ELSE IF ipv4_port_error(v, c.g5, ipv4_port_digits(ipv4, c.g5)) # ""
    THEN IPv4Err(ipv4_port_error(v, c.g5, ipv4_port_digits(ipv4, c.g5)))
    \* unreachable!(): group 1 is in every match
    ELSE IF ~c.g1.some THEN IPv4Panic
    ELSE ipv4_from_ipv6(v, Slice(ipv4, c.g1.start, c.g1.end),
                        ipv4_port_value(ipv4, c.g5),
                        IF c.g5.some THEN c.g5.start ELSE 0)

\* IPv4Validator::parse_inner, the branch of an input that starts with "[".
ipv4_parse_bracketed(v, ipv4) == ipv4_bracketed_captures(v, ipv4, IPV6_PORT_RE(ipv4))

ipv4_bare_captures(v, ipv4, c) ==
    IF ~c.matched THEN IPv4Err("IncorrectFormat")
    \* unreachable!(): group 1 is in every match
    ELSE IF ~c.g1.some THEN IPv4Panic
    ELSE ipv4_from_ipv6(v, Slice(ipv4, c.g1.start, c.g1.end), 0, 0)

\* IPv4Validator::parse_inner, the branch of any other input: the bare
\* IPv6 grammar, which has no port and consults no port policy.
ipv4_parse_bare(v, ipv4) == ipv4_bare_captures(v, ipv4, IPV6_RE(ipv4))

ipv4_parse_captures(v, ipv4, c) ==
    IF c.matched THEN ipv4_parse_dotted(v, ipv4, c)
    ELSE IF Len(ipv4) >= 1 /\ ipv4[1] = "[" THEN ipv4_parse_bracketed(v, ipv4)
    ELSE ipv4_parse_bare(v, ipv4)

ipv4_parse_inner(v, ipv4) == ipv4_parse_captures(v, ipv4, IPV4_RE(ipv4))

is_ipv4(v, full_ipv4) == ipv4_parse_inner(v, full_ipv4).ok

\* A mutation of ipv4_with_buffer: port_index keeps the offset it had in
\* the IPv6 literal.
ipv4_with_buffer_keeps_index(ipv4_inner, text, port_index) ==
    [ipv4_inner EXCEPT !.full_ipv4 = text, !.full_ipv4_len = Len(text)]

\* The descriptor with its synthesized buffer and the offsets into it.
ipv4_with_buffer(ipv4_inner, text, port_index) ==
    [ipv4_inner EXCEPT !.full_ipv4 = text, !.full_ipv4_len = Len(text),
                       !.port_index = port_index]

ipv4_synthesize_from(ipv4_inner, ipv4) ==
    IF ipv4_inner.port_index = 0
    THEN ipv4_with_buffer(ipv4_inner, ipv4, Len(ipv4))
    ELSE ipv4_with_buffer(ipv4_inner,
             ipv4_inner.full_ipv4 \o ipv4 \o <<":">> \o to_string(ipv4_inner.port),
             Len(ipv4) + 1)

\* The buffer synthesized from the address (and the port) when the input
\* was an IPv6 literal.
ipv4_synthesize(ipv4_inner) ==
    ipv4_synthesize_from(ipv4_inner, Ipv4Addr_to_string(ipv4_inner.ip))

ipv4_own(ipv4_inner, full_ipv4) ==
    IF ~ipv4_inner.ok THEN ipv4_inner
    ELSE IF ipv4_inner.v.full_ipv4_len # 0
    THEN Ok([ipv4_inner.v EXCEPT !.full_ipv4 = full_ipv4])
    ELSE Ok(ipv4_synthesize(ipv4_inner.v))

ipv4_parse_string(v, full_ipv4) == ipv4_own(ipv4_parse_inner(v, full_ipv4), full_ipv4)

ipv4_push_str(ipv4_inner, full_ipv4) ==
    IF ~ipv4_inner.ok THEN ipv4_inner
    ELSE IF ipv4_inner.v.full_ipv4_len # 0
    THEN Ok([ipv4_inner.v EXCEPT
                !.full_ipv4 = ipv4_inner.v.full_ipv4 \o full_ipv4])
    ELSE Ok(ipv4_synthesize(ipv4_inner.v))

ipv4_parse_str(v, full_ipv4) == ipv4_push_str(ipv4_parse_inner(v, full_ipv4), full_ipv4)

(* The accessors of IPv4. *)

get_ipv4_address(a) == a.ip

ipv4_get_port(a) == IF a.port_index # a.full_ipv4_len THEN Some(a.port) ELSE None

get_full_ipv4(a) == a.full_ipv4

get_full_ipv4_without_port(a) ==
    IF a.port_index # a.full_ipv4_len
    THEN Slice(a.full_ipv4, 0, a.port_index - 1)
    ELSE a.full_ipv4

is_local(a) == a.is_local

\* When the slice of get_full_ipv4_without_port panics.
get_full_ipv4_without_port_panics(a) ==
    /\ a.port_index # a.full_ipv4_len
    /\ ~SliceInBounds(a.full_ipv4, 0, a.port_index - 1)

---------------------------------------------------------------------------
(* The inputs of the IPv4 model                                            *)

\* Addresses of every class is_local_ipv4 tells apart, and public ones.
Quads == {<<8, 8, 8, 8>>, <<168, 17, 212, 1>>, <<172, 32, 0, 1>>,
          <<10, 0, 0, 1>>, <<172, 16, 0, 1>>, <<192, 168, 1, 1>>,
          <<127, 0, 0, 1>>, <<169, 254, 0, 1>>, <<255, 255, 255, 255>>,
          <<192, 0, 2, 1>>, <<198, 51, 100, 7>>, <<203, 0, 113, 9>>,
          <<0, 0, 0, 0>>}

\* Dotted text with an octet out of range.
BadQuads == {<<999, 1, 1, 1>>, <<256, 0, 0, 1>>}

QuadTexts == {Ipv4Addr_to_string(q) : q \in Quads \cup BadQuads}
                \cup {<<"1", ".", "2", ".", "3">>, <<"0", "1", ".", "2", ".", "3", ".", "4">>}

\* IPv6 literals: IPv4-mapped and IPv4-compatible forms of the quads, the
\* literal of the tests, and addresses with no embedded IPv4 address.
IPv6Texts ==
    {<<":", ":", "f", "f", "f", "f", ":">> \o Ipv4Addr_to_string(q) : q \in Quads}
    \cup {<<":", ":">> \o Ipv4Addr_to_string(q) : q \in {<<8, 8, 8, 8>>, <<127, 0, 0, 1>>}}
    \cup {Rep(<<"0", "0", "0", "0", ":">>, 6) \o <<"3", "7", "0", ":", "7", "3", "4", "8">>,
          <<"2", "0", "0", "1", ":", "d", "b", "8", ":", ":", "1">>,
          <<":", ":", "1", ":", "0", ":", "0", ":", "1">>,
          <<":", ":", "g">>, <<"1", ":", "2">>}

AddressTexts ==
    QuadTexts \cup IPv6Texts \cup {<<"[">> \o a \o <<"]">> : a \in IPv6Texts}
        \cup {<<>>, <<"[", "]">>, <<"[", ":", ":", "1">>}

IPv4Inputs == {a \o p : a \in AddressTexts, p \in PortSuffixes}

IPv4Validators ==
    [port : ValidatorOption, local : ValidatorOption, ipv6 : ValidatorOption]

---------------------------------------------------------------------------
(* The IPv4 validator as a state machine                                   *)

IPv4NotCalled == [called |-> FALSE, r |-> IPv4Err("")]

InitIPv4 ==
    /\ validator \in IPv4Validators
    /\ input \in IPv4Inputs
    /\ out = [parse_string |-> IPv4NotCalled, parse_str |-> IPv4NotCalled,
              is_ipv4 |-> IPv4NotCalled]

IPv4ParseString ==
    /\ validator \in IPv4Validators
    /\ ~out.parse_string.called
    /\ out' = [out EXCEPT
                 !.parse_string = Called(ipv4_parse_string(validator, input))]
    /\ UNCHANGED <<validator, input>>

IPv4ParseStr ==
    /\ validator \in IPv4Validators
    /\ ~out.parse_str.called
    /\ out' = [out EXCEPT !.parse_str = Called(ipv4_parse_str(validator, input))]
    /\ UNCHANGED <<validator, input>>

IsIPv4 ==
    /\ validator \in IPv4Validators
    /\ "is_ipv4" \in DOMAIN out
    /\ ~out.is_ipv4.called
    /\ out' = [out EXCEPT !.is_ipv4 = Called(is_ipv4(validator, input))]
    /\ UNCHANGED <<validator, input>>

NextIPv4 == IPv4ParseString \/ IPv4ParseStr \/ IsIPv4

SpecIPv4 == InitIPv4 /\ [][NextIPv4]_vars

---------------------------------------------------------------------------
(* The wrapper types of IPv4: one type per fixed policy                    *)

\* extend!(name, port, local, ipv6)
IPv4WrapperPolicy ==
    [IPv4LocalableWithPort      |-> [port |-> "Must", local |-> "Allow", ipv6 |-> "Allow"],
     IPv4LocalableAllowPort     |-> [port |-> "Allow", local |-> "Allow", ipv6 |-> "Allow"],
     IPv4LocalableWithoutPort   |-> [port |-> "NotAllow", local |-> "Allow", ipv6 |-> "Allow"],
     IPv4UnlocalableWithPort    |-> [port |-> "Must", local |-> "NotAllow", ipv6 |-> "Allow"],
     IPv4UnlocalableAllowPort   |-> [port |-> "Allow", local |-> "NotAllow", ipv6 |-> "Allow"],
     IPv4UnlocalableWithoutPort |-> [port |-> "NotAllow", local |-> "NotAllow", ipv6 |-> "Allow"]]

IPv4Wrappers == DOMAIN IPv4WrapperPolicy

ipv4_create_validator(X) == IPv4WrapperPolicy[X]

\* X::from_string and X::from_str: the wrapped value is the IPv4.
ipv4_from_string(X, ipv4) == ipv4_parse_string(ipv4_create_validator(X), ipv4)

ipv4_from_str(X, ipv4) == ipv4_parse_str(ipv4_create_validator(X), ipv4)

\* X::from_ipv4: the flags of the descriptor against the policy of X.
from_ipv4(X, ipv4) ==
    IF /\ ipv4_create_validator(X).port = "Must"
       /\ ipv4.port_index = ipv4.full_ipv4_len
    THEN IPv4Err("PortNotFound")
    ELSE IF /\ ipv4_create_validator(X).port = "NotAllow"
            /\ ipv4.port_index # ipv4.full_ipv4_len
    THEN IPv4Err("PortNotAllow")
    ELSE IF ipv4_create_validator(X).local = "Must" /\ ~ipv4.is_local
    THEN IPv4Err("LocalNotFound")
    ELSE IF ipv4_create_validator(X).local = "NotAllow" /\ ipv4.is_local
    THEN IPv4Err("LocalNotAllow")
    ELSE Ok(ipv4)

\* The inputs of the wrapper model: a public and a local address and a
\* malformed one, dotted and as IPv6 literals, bare and bracketed.
WrapperQuadTexts ==
    {Ipv4Addr_to_string(q) : q \in {<<8, 8, 8, 8>>, <<127, 0, 0, 1>>, <<999, 1, 1, 1>>}}

WrapperAddressTexts ==
    WrapperQuadTexts
    \cup {<<":", ":", "f", "f", "f", "f", ":">> \o t : t \in WrapperQuadTexts}
    \cup {<<"[", ":", ":">> \o t \o <<"]">> : t \in WrapperQuadTexts}
    \cup {<<"2", "0", "0", "1", ":", "d", "b", "8", ":", ":", "1">>}

WrapperIPv4Inputs == {a \o p : a \in WrapperAddressTexts, p \in PortSuffixes}

\* A run of the wrapper model takes one wrapper type X; from_string is
\* applied to the input, from_ipv4 to a descriptor that parse_string or
\* parse_str returned, from_str to the input or to the full text of such a
\* descriptor.
InitIPv4Wrappers ==
    /\ validator \in IPv4Validators
    /\ input \in WrapperIPv4Inputs
    /\ out \in {[parse_string |-> IPv4NotCalled, parse_str |-> IPv4NotCalled,
                 wrapper |-> X, from_string |-> IPv4NotCalled,
                 from_str |-> [called |-> FALSE, text |-> <<>>, r |-> IPv4Err("")],
                 from_ipv4 |-> [called |-> FALSE, ipv4 |-> NoIPv4,
                                r |-> IPv4Err("")]] : X \in IPv4Wrappers}

IPv4FromString ==
    /\ validator \in IPv4Validators
    /\ "wrapper" \in DOMAIN out
    /\ ~out.from_string.called
    /\ out' = [out EXCEPT
                 !.from_string = Called(ipv4_from_string(out.wrapper, input))]
    /\ UNCHANGED <<validator, input>>

IPv4FromStr ==
    /\ validator \in IPv4Validators
    /\ "wrapper" \in DOMAIN out
    /\ ~out.from_str.called
    /\ \E text \in {input} \cup {get_full_ipv4(out[op].r.v) :
                       op \in {o \in {"parse_string", "parse_str"} :
                                  out[o].called /\ out[o].r.ok}} :
          out' = [out EXCEPT !.from_str =
                     [called |-> TRUE, text |-> text,
                      r |-> ipv4_from_str(out.wrapper, text)]]
    /\ UNCHANGED <<validator, input>>

FromIPv4 ==
    /\ validator \in IPv4Validators
    /\ "wrapper" \in DOMAIN out
    /\ ~out.from_ipv4.called
    /\ \E op \in {"parse_string", "parse_str"} :
          /\ out[op].called /\ out[op].r.ok
          /\ out' = [out EXCEPT !.from_ipv4 =
                        [called |-> TRUE, ipv4 |-> out[op].r.v,
                         r |-> from_ipv4(out.wrapper, out[op].r.v)]]
    /\ UNCHANGED <<validator, input>>

NextIPv4Wrappers ==
    IPv4ParseString \/ IPv4ParseStr \/ IPv4FromString \/ IPv4FromStr \/ FromIPv4

SpecIPv4Wrappers == InitIPv4Wrappers /\ [][NextIPv4Wrappers]_vars

---------------------------------------------------------------------------
(* Both validators: a run builds one validator of either kind.             *)

Init == InitDomain \/ InitIPv4

Next == NextDomain \/ NextIPv4

Spec == Init /\ [][Next]_vars

\* The validators and their wrapper types together.
InitCrate == InitDomain \/ InitIPv4 \/ InitDomainWrappers \/ InitIPv4Wrappers

NextCrate ==
    \/ NextDomain \/ NextIPv4
    \/ FromString \/ FromStr \/ FromDomain
    \/ IPv4FromString \/ IPv4FromStr \/ FromIPv4

SpecCrate == InitCrate /\ [][NextCrate]_vars

---------------------------------------------------------------------------
(* What the claims say, read off the input text                            *)

\* The length of the host part: the text before the first colon.
HostLen(s) ==
    IF \E i \in 1..Len(s) : s[i] = ":"
    THEN (CHOOSE i \in 1..Len(s) : s[i] = ":" /\ \A j \in 1..(i - 1) : s[j] # ":") - 1
    ELSE Len(s)

HostPart(s) == SubSeq(s, 1, HostLen(s))

\* The digits of the port suffix.
PortDigits(s) == SubSeq(s, HostLen(s) + 2, Len(s))

HasPortSuffix(s) == HostLen(s) < Len(s)

\* The labels of a host: its pieces between the dots.
RECURSIVE SplitDots(_)
SplitDots(h) ==
    IF \E i \in 1..Len(h) : h[i] = "."
    THEN LET i == CHOOSE k \in 1..Len(h) : h[k] = "." /\ \A j \in 1..(k - 1) : h[j] # "."
         IN  <<SubSeq(h, 1, i - 1)>> \o SplitDots(SubSeq(h, i + 1, Len(h)))
    ELSE <<h>>

InputLabels == SplitDots(HostPart(input))

\* The results of the two parsing entry points that have been called.
DomainOutcomes ==
    IF validator \in DomainValidators
    THEN {out[op].r : op \in {o \in {"parse_string", "parse_str"} : out[o].called}}
    ELSE {}

DomainAccepted == {r.v : r \in {x \in DomainOutcomes : x.ok}}

\* C1: an accepted input with at least two labels is carved exactly: the
\* top-level domain is the last label, the domain the one before it, the
\* sub-domain everything before the dot in front of the domain (None iff
\* there are two labels), the full domain without port is the host part,
\* and the pieces joined by dots give the host part back.
C1_AccessorsCarve ==
    \A d \in DomainAccepted :
        LET ls == InputLabels
            n  == Len(ls)
        IN  n >= 2 =>
              /\ get_top_level_domain(d) = Some(ls[n])
              /\ get_domain(d) = ls[n - 1]
              /\ get_sub_domain(d).some <=> n > 2
              /\ n > 2 => get_sub_domain(d).v = Join(SubSeq(ls, 1, n - 2))
              /\ get_full_domain_without_port(d) = HostPart(input)
              /\ (IF n > 2 THEN get_sub_domain(d).v \o <<".">> ELSE <<>>)
                    \o get_domain(d) \o <<".">> \o get_top_level_domain(d).v
                 = get_full_domain_without_port(d)
              /\ HasPortSuffix(input) =>
                    get_port(d) = Some(DecimalValue(PortDigits(input)))
              /\ ~is_localhost(d)

\* "a.bc.a:80" under port = Allow, localhost = NotAllow is carved into
\* "a" / "bc" / "a" / 80.
C1_Witness ==
    /\ validator = [port |-> "Allow", localhost |-> "NotAllow"]
    /\ input = <<"a", ".", "b", "c", ".", "a", ":", "8", "0">>
    /\ out.parse_string.called /\ out.parse_string.r.ok
    /\ get_sub_domain(out.parse_string.r.v) = Some(<<"a">>)
    /\ get_domain(out.parse_string.r.v) = <<"b", "c">>
    /\ get_top_level_domain(out.parse_string.r.v) = Some(<<"a">>)
    /\ get_port(out.parse_string.r.v) = Some(80)

\* C2: parse_string and parse_str of one input under one policy fail with
\* the same error, or both succeed with the input as the full domain and
\* equal sub-domain, domain, top-level domain, port and localhost flag.
C2_OwnedAndBorrowedAgree ==
    /\ \A d \in DomainAccepted : get_full_domain(d) = input
    /\ (validator \in DomainValidators
          /\ out.parse_string.called /\ out.parse_str.called) =>
          LET a == out.parse_string.r
              b == out.parse_str.r
          IN  /\ a.ok = b.ok
              /\ ~a.ok => a.err = b.err
              /\ a.ok =>
                    /\ get_sub_domain(a.v) = get_sub_domain(b.v)
                    /\ get_domain(a.v) = get_domain(b.v)
                    /\ get_top_level_domain(a.v) = get_top_level_domain(b.v)
                    /\ get_port(a.v) = get_port(b.v)
                    /\ is_localhost(a.v) = is_localhost(b.v)

C2_Witness ==
    /\ validator \in DomainValidators
    /\ out.parse_string.called /\ out.parse_str.called
    /\ out.parse_string.r.ok /\ out.parse_str.r.ok
    /\ get_full_domain(out.parse_str.r.v) = input
    /\ Len(InputLabels) = 3 /\ HasPortSuffix(input)

\* C3 as stated: whenever a descriptor has a port p, the full domain is
\* the full domain without port, a colon and the decimal text of p.
C3_PortReconstruction ==
    \A d \in DomainAccepted :
        get_port(d).some =>
            get_full_domain_without_port(d) \o <<":">> \o to_string(get_port(d).v)
              = get_full_domain(d)

\* C3 as amended: the full domain is the full domain without port, a colon
\* and the digits of the suffix, whose decimal value is p; the decimal text
\* of p gives the full domain back when the suffix has no leading zero.
C3_PortReconstructionCanonical ==
    \A d \in DomainAccepted :
        get_port(d).some =>
            /\ HasPortSuffix(input)
            /\ get_full_domain_without_port(d) \o <<":">> \o PortDigits(input)
                 = get_full_domain(d)
            /\ DecimalValue(PortDigits(input)) = get_port(d).v
            /\ (PortDigits(input)[1] # "0" \/ Len(PortDigits(input)) = 1) =>
                  get_full_domain_without_port(d) \o <<":">> \o to_string(get_port(d).v)
                    = get_full_domain(d)

\* "a.bc:080" is accepted with port 80: the digits of the suffix, not the
\* decimal text of the port, give the full domain back.
C3_Witness ==
    \E d \in DomainAccepted :
        /\ PortDigits(input) = <<"0", "8", "0">>
        /\ get_port(d) = Some(80)
        /\ get_full_domain_without_port(d) \o <<":", "0", "8", "0">>
             = get_full_domain(d)
        /\ Len(InputLabels) >= 2

\* The host part is the literal "localhost", compared case-insensitively.
HostIsLocalhost(s) == to_lowercase(HostPart(s)) = localhost

\* The input breaks the port policy: a port suffix under NotAllow, or none
\* under Must.
ViolatesPortPolicy(v, s) ==
    \/ not_allow(v.port) /\ HasPortSuffix(s)
    \/ must(v.port) /\ ~HasPortSuffix(s)

\* The input breaks the localhost policy: localhost under NotAllow, or
\* another host under Must.
ViolatesLocalhostPolicy(v, s) ==
    \/ not_allow(v.localhost) /\ HostIsLocalhost(s)
    \/ must(v.localhost) /\ ~HostIsLocalhost(s)

\* An input of the domain grammar: "localhost" or at least two labels, each
\* of 1 to 63 characters, at most 255 bytes of host, and a port suffix, if
\* any, of 1 to 5 digits with a value that fits 16 bits.
WellFormedDomain(s) ==
    /\ DOMAIN_RE(s).matched
    /\ HostLen(s) <= HostMax
    /\ HostIsLocalhost(s) \/ Len(SplitDots(HostPart(s))) >= 2
    /\ HasPortSuffix(s) => parse_u16(PortDigits(s)).some

\* C7 as stated: when a well-formed input breaks both the port policy and
\* the localhost policy, the error is the port error.
C7_PortErrorBeforeLocalhostError ==
    \A r \in DomainOutcomes :
        (/\ WellFormedDomain(input)
         /\ ViolatesPortPolicy(validator, input)
         /\ ViolatesLocalhostPolicy(validator, input))
        => (~r.ok /\ r.err \in {"PortNotAllow", "PortNotFound"})

\* C9 as stated: an input whose host part is longer than 255 bytes is
\* rejected with IncorrectFormat under every policy, and no accepted domain
\* has a host part longer than 255 bytes.
C9_LongHostIsIncorrectFormat ==
    \A r \in DomainOutcomes :
        /\ HostLen(input) > HostMax => (~r.ok /\ r.err = "IncorrectFormat")
        /\ r.ok => Len(get_full_domain_without_port(r.v)) <= HostMax

\* C10 as stated: every descriptor has
\* 0 <= domain <= top_level_domain <= port_index <= full_domain_len.
C10_OffsetsOrdered ==
    \A d \in DomainAccepted :
        /\ 0 <= d.domain
        /\ d.domain <= d.top_level_domain
        /\ d.top_level_domain <= d.port_index
        /\ d.port_index <= d.full_domain_len

\* C10 as amended: 0 <= domain <= top_level_domain <= full_domain_len and
\* domain < port_index <= full_domain_len; top_level_domain <= port_index
\* when the descriptor has a top-level domain; a descriptor without one and
\* with a port ("localhost:80") has port_index < top_level_domain.
C10_OffsetsOrderedWhenPresent ==
    \A d \in DomainAccepted :
        /\ 0 <= d.domain
        /\ d.domain <= d.top_level_domain
        /\ d.top_level_domain <= d.full_domain_len
        /\ d.domain < d.port_index
        /\ d.port_index <= d.full_domain_len
        /\ d.full_domain_len = Len(input)
        /\ d.top_level_domain # d.full_domain_len =>
              d.top_level_domain <= d.port_index
        /\ (d.top_level_domain = d.full_domain_len
              /\ d.port_index # d.full_domain_len) =>
              d.port_index < d.top_level_domain

C10_Witness ==
    \E d \in DomainAccepted :
        /\ HostIsLocalhost(input) /\ HasPortSuffix(input)
        /\ d.domain = 0 /\ d.port_index = 10
        /\ d.top_level_domain = d.full_domain_len


---------------------------------------------------------------------------
(* IPv4: what the claims say                                               *)

IPv4Outcomes ==
    IF validator \in IPv4Validators
    THEN {out[op].r : op \in {o \in {"parse_string", "parse_str"} : out[o].called}}
    ELSE {}

IPv4Accepted == {r.v : r \in {x \in IPv4Outcomes : x.ok}}

\* The input is a dotted quad with an optional port suffix.
IsDottedQuadInput(s) == IPV4_RE(s).matched

\* The input is a bracketed IPv6 literal with an optional port suffix.
IsBracketedInput(s) ==
    /\ IPV6_PORT_RE(s).matched
    /\ Ipv6Addr_from_str(Slice(s, IPV6_PORT_RE(s).g1.start, IPV6_PORT_RE(s).g1.end)).some

\* The input is a bare IPv6 literal.
IsBareIPv6Input(s) == ~IsDottedQuadInput(s) /\ Ipv6Addr_from_str(s).some

\* The input ends in a port suffix: ":digits" after a dotted quad or after
\* the closing bracket.
IPv4HasPortSuffix(s) ==
    \/ IsDottedQuadInput(s) /\ IPV4_RE(s).g7.some
    \/ IsBracketedInput(s) /\ IPV6_PORT_RE(s).g5.some

\* C4 as stated: for an accepted dotted quad, get_port() is None and the
\* full text without port is the whole input when the input has no port
\* suffix; otherwise get_port() is the port and the full text without port
\* is the text before the colon.
C4_IPv4PortAccessors ==
    \A a \in IPv4Accepted :
        IsDottedQuadInput(input) =>
            IF HasPortSuffix(input)
            THEN /\ ipv4_get_port(a) = Some(DecimalValue(PortDigits(input)))
                 /\ get_full_ipv4_without_port(a) = HostPart(input)
            ELSE /\ ipv4_get_port(a) = None
                 /\ get_full_ipv4_without_port(a) = input

\* C5 as stated: under port = Must an input without a port suffix is
\* rejected, so every accepted descriptor has a port.
C5_MustPortRejectsPortless ==
    \A r \in IPv4Outcomes :
        must(validator.port) =>
            /\ ~IPv4HasPortSuffix(input) => ~r.ok
            /\ r.ok => ipv4_get_port(r.v).some

\* The input is well formed but for the port policy.
OtherwiseValidIPv4(v, s) ==
    ipv4_parse_inner([v EXCEPT !.port = "Allow"], s).ok

OtherwiseValidDomain(v, s) ==
    parse_inner([v EXCEPT !.port = "Allow"], s).ok

\* C6 as stated: under port = NotAllow both validators reject with
\* PortNotAllow every input that ends in a port suffix and is otherwise
\* valid, and every descriptor they return has no port.
C6_NotAllowPortMeansNoPort ==
    not_allow(validator.port) =>
        /\ \A r \in DomainOutcomes :
              /\ (HasPortSuffix(input) /\ OtherwiseValidDomain(validator, input))
                    => (~r.ok /\ r.err = "PortNotAllow")
              /\ r.ok => get_port(r.v) = None
        /\ \A r \in IPv4Outcomes :
              /\ (IPv4HasPortSuffix(input) /\ OtherwiseValidIPv4(validator, input))
                    => (~r.ok /\ r.err = "PortNotAllow")
              /\ r.ok => ipv4_get_port(r.v) = None

ViolatesIPv4PortPolicy(v, s) ==
    \/ not_allow(v.port) /\ IPv4HasPortSuffix(s)
    \/ must(v.port) /\ ~IPv4HasPortSuffix(s)

\* C8 as stated: when an input breaks both the ipv6 policy and the port
\* policy, the error is the family error: IPv6NotFound for a dotted quad
\* under ipv6 = Must, IPv6NotAllow for a bracketed literal under
\* ipv6 = NotAllow.
C8_FamilyErrorBeforePortError ==
    \A r \in IPv4Outcomes :
        ViolatesIPv4PortPolicy(validator, input) =>
            /\ (IsDottedQuadInput(input) /\ must(validator.ipv6))
                  => (~r.ok /\ r.err = "IPv6NotFound")
            /\ (IsBracketedInput(input) /\ not_allow(validator.ipv6))
                  => (~r.ok /\ r.err = "IPv6NotAllow")

---------------------------------------------------------------------------
(* Domain: the localhost policy                                            *)

\* The answer of is_domain, once it has been called.
IsDomainAnswers ==
    IF validator \in DomainValidators /\ out.is_domain.called
    THEN {out.is_domain.r}
    ELSE {}

\* C11: under localhost = Must an input is accepted only if its host part
\* is the one label "localhost" in any letter case; an input of two or more
\* labels is rejected; an accepted descriptor is localhost and its full
\* domain is the input, letter case included.
C11_MustAcceptsOnlyLocalhost ==
    (validator \in DomainValidators /\ must(validator.localhost)) =>
        /\ \A r \in DomainOutcomes :
              /\ r.ok => /\ HostIsLocalhost(input)
                         /\ Len(InputLabels) = 1
                         /\ is_localhost(r.v)
                         /\ get_full_domain(r.v) = input
              /\ Len(InputLabels) >= 2 => ~r.ok
        /\ \A b \in IsDomainAnswers : b => HostIsLocalhost(input)

\* "LocalHost:80" is accepted under localhost = Must with its letter case.
C11_Witness ==
    /\ validator = [port |-> "Allow", localhost |-> "Must"]
    /\ input = <<"L", "o", "c", "a", "l", "H", "o", "s", "t", ":", "8", "0">>
    /\ out.parse_str.called /\ out.parse_str.r.ok
    /\ is_localhost(out.parse_str.r.v)
    /\ get_full_domain(out.parse_str.r.v) = input
    /\ get_port(out.parse_str.r.v) = Some(80)

\* The input is "localhost" in any letter case, a dot and one more label,
\* with a port suffix or none.
IsLocalhostDotLabel(s) ==
    /\ DOMAIN_RE(s).matched
    /\ Len(SplitDots(HostPart(s))) = 2
    /\ to_lowercase(SplitDots(HostPart(s))[1]) = localhost

\* The port suffix, if any, has a value that fits 16 bits.
PortFits(s) == HasPortSuffix(s) => parse_u16(PortDigits(s)).some

\* C12: "localhost.<label>" is rejected with LocalhostNotFound under
\* localhost = Must; under Allow and NotAllow no localhost error is raised
\* and, the port policy being met, it is accepted as an ordinary domain:
\* not localhost, domain "localhost" as written, top-level domain <label>.
C12_LocalhostWithTopLevelDomain ==
    (validator \in DomainValidators /\ IsLocalhostDotLabel(input)) =>
        \A r \in DomainOutcomes :
            IF must(validator.localhost)
            THEN ~r.ok /\ r.err = "LocalhostNotFound"
            ELSE /\ ~r.ok => r.err \in {"PortNotAllow", "PortNotFound", "IncorrectPort"}
                 /\ (~ViolatesPortPolicy(validator, input) /\ PortFits(input)) => r.ok
                 /\ r.ok => /\ ~is_localhost(r.v)
                            /\ get_domain(r.v) = InputLabels[1]
                            /\ get_top_level_domain(r.v) = Some(InputLabels[2])
                            /\ get_sub_domain(r.v) = None

\* "LocalHost.a" is accepted under localhost = NotAllow, and rejected with
\* LocalhostNotFound under Must.
C12_Witness ==
    /\ input = <<"L", "o", "c", "a", "l", "H", "o", "s", "t", ".", "a">>
    /\ out.parse_string.called
    /\ \/ /\ validator = [port |-> "Allow", localhost |-> "NotAllow"]
          /\ out.parse_string.r.ok
          /\ ~is_localhost(out.parse_string.r.v)
          /\ get_domain(out.parse_string.r.v) = SubSeq(input, 1, 9)
       \/ /\ validator = [port |-> "Allow", localhost |-> "Must"]
          /\ out.parse_string.r.err = "LocalhostNotFound"

\* The input is one label of the domain grammar, with a port suffix or
\* none.
IsSingleLabel(s) ==
    DOMAIN_RE(s).matched /\ Len(SplitDots(HostPart(s))) = 1

\* C13 as stated: a single label is accepted under localhost = Allow, and
\* under NotAllow when it is not "localhost", the port policy being met:
\* the domain is the label, there is no top-level domain, and the
\* descriptor is localhost exactly when the label is "localhost".
C13_SingleLabelAccepted ==
    (/\ validator \in DomainValidators
     /\ IsSingleLabel(input) /\ HostLen(input) <= HostMax
     /\ ~ViolatesPortPolicy(validator, input) /\ PortFits(input)
     /\ \/ validator.localhost = "Allow"
        \/ validator.localhost = "NotAllow" /\ ~HostIsLocalhost(input)) =>
        \A r \in DomainOutcomes :
            /\ r.ok
            /\ get_domain(r.v) = HostPart(input)
            /\ get_top_level_domain(r.v) = None
            /\ is_localhost(r.v) <=> HostIsLocalhost(input)

---------------------------------------------------------------------------
(* Domain: the wrapper types                                               *)

\* The descriptor meets the policy of the wrapper type X.
SatisfiesDomainPolicy(X, d) ==
    /\ create_validator(X).port = "Must" => get_port(d).some
    /\ create_validator(X).port = "NotAllow" => ~get_port(d).some
    /\ create_validator(X).localhost = "NotAllow" => ~is_localhost(d)

\* The values of the wrapper type built so far, by any constructor.
DomainWrapped ==
    {out[op].r.v : op \in {o \in {"from_string", "from_str", "from_domain"} :
                              out[o].called /\ out[o].r.ok}}

\* C14 as stated: from_domain(d) succeeds exactly when d meets the policy
\* of X, which is exactly when from_str of the full domain of d succeeds;
\* so a value of a type with port = NotAllow never has a port.
C14_FromDomainMatchesPolicy ==
    /\ out.from_domain.called =>
          /\ out.from_domain.r.ok
                <=> SatisfiesDomainPolicy(out.wrapper, out.from_domain.domain)
          /\ get_full_domain(out.from_domain.domain) = input
          /\ out.from_str.called => (out.from_domain.r.ok <=> out.from_str.r.ok)
    /\ create_validator(out.wrapper).port = "NotAllow" =>
          \A w \in DomainWrapped : get_port(w) = None

---------------------------------------------------------------------------
(* IPv4: the wrapper types                                                 *)

\* The full text of the descriptor ends in a port suffix.
IPv4TextHasPort(d) == IPV4_RE(get_full_ipv4(d)).g7.some

\* The descriptor meets the port and locality policy of the wrapper type X.
SatisfiesIPv4Policy(X, d) ==
    /\ ipv4_create_validator(X).port = "Must" => IPv4TextHasPort(d)
    /\ ipv4_create_validator(X).port = "NotAllow" => ~IPv4TextHasPort(d)
    /\ ipv4_create_validator(X).local = "NotAllow" => ~is_local(d)

\* C15 as stated: from_ipv4(d) succeeds exactly when d meets the port and
\* locality policy of X, which is exactly when from_str of the full text of
\* d succeeds; a type with port = NotAllow accepts the descriptor of a
\* dotted quad without port.
C15_FromIPv4MatchesPolicy ==
    out.from_ipv4.called =>
        /\ out.from_ipv4.r.ok
              <=> SatisfiesIPv4Policy(out.wrapper, out.from_ipv4.ipv4)
        /\ (out.from_str.called
              /\ out.from_str.text = get_full_ipv4(out.from_ipv4.ipv4)) =>
              (out.from_ipv4.r.ok <=> out.from_str.r.ok)

---------------------------------------------------------------------------
(* IPv4: descriptors of IPv6 literals, locality, octets                    *)

\* The input is accepted, if at all, through one of the IPv6 grammars.
IsIPv6Input(s) == ~IsDottedQuadInput(s)

\* The digits after "]:" of a bracketed input.
BracketPortDigits(s) ==
    Slice(s, IPV6_PORT_RE(s).g5.start, IPV6_PORT_RE(s).g5.end)

\* C16: a descriptor of an IPv6 literal has the text of its IPv4 address as
\* full text, followed by a colon and the decimal text of the port when the
\* literal had a port suffix; the accessors give the address text, and the
\* port or None; the text has no bracket; parse_string and parse_str agree.
C16_IPv6LiteralIsSynthesized ==
    (validator \in IPv4Validators /\ IsIPv6Input(input)) =>
        /\ \A a \in IPv4Accepted :
              /\ get_full_ipv4_without_port(a)
                    = Ipv4Addr_to_string(get_ipv4_address(a))
              /\ IF IPv4HasPortSuffix(input)
                 THEN /\ ipv4_get_port(a)
                            = Some(DecimalValue(BracketPortDigits(input)))
                      /\ get_full_ipv4(a)
                            = Ipv4Addr_to_string(get_ipv4_address(a)) \o <<":">>
                                 \o to_string(ipv4_get_port(a).v)
                 ELSE /\ ipv4_get_port(a) = None
                      /\ get_full_ipv4(a) = Ipv4Addr_to_string(get_ipv4_address(a))
              /\ \A i \in 1..Len(get_full_ipv4(a)) :
                    IsDigit(get_full_ipv4(a)[i]) \/ get_full_ipv4(a)[i] \in {".", ":"}
              /\ IPV4_RE(get_full_ipv4(a)).matched
        /\ (out.parse_string.called /\ out.parse_str.called) =>
              out.parse_string.r = out.parse_str.r

\* "[::ffff:192.0.2.1]:80" gives the address 192.0.2.1, the port 80 and the
\* full text "192.0.2.1:80".
C16_Witness ==
    /\ validator \in IPv4Validators
    /\ input = <<"[", ":", ":", "f", "f", "f", "f", ":">>
                  \o Ipv4Addr_to_string(<<192, 0, 2, 1>>) \o <<"]", ":", "8", "0">>
    /\ out.parse_string.called /\ out.parse_str.called
    /\ out.parse_str.r.ok
    /\ get_ipv4_address(out.parse_str.r.v) = <<192, 0, 2, 1>>
    /\ ipv4_get_port(out.parse_str.r.v) = Some(80)
    /\ get_full_ipv4(out.parse_str.r.v)
          = <<"1", "9", "2", ".", "0", ".", "2", ".", "1", ":", "8", "0">>

\* The upper and lower 16 bits of an address, and membership in the
\* network net/bits.
Upper16(ip) == ip[1] * 256 + ip[2]

Lower16(ip) == ip[3] * 256 + ip[4]

InNet(ip, net, bits) ==
    IF bits <= 16
    THEN Upper16(ip) \div 2 ^ (16 - bits) = Upper16(net) \div 2 ^ (16 - bits)
    ELSE /\ Upper16(ip) = Upper16(net)
         /\ Lower16(ip) \div 2 ^ (32 - bits) = Lower16(net) \div 2 ^ (32 - bits)

\* The networks the claim calls local.
LocalNets ==
    {<<<<10, 0, 0, 0>>, 8>>, <<<<172, 16, 0, 0>>, 12>>, <<<<192, 168, 0, 0>>, 16>>,
     <<<<127, 0, 0, 0>>, 8>>, <<<<169, 254, 0, 0>>, 16>>,
     <<<<255, 255, 255, 255>>, 32>>, <<<<192, 0, 2, 0>>, 24>>,
     <<<<198, 51, 100, 0>>, 24>>, <<<<203, 0, 113, 0>>, 24>>,
     <<<<0, 0, 0, 0>>, 32>>}

\* C17: is_local() of a descriptor is true exactly when its address lies in
\* one of the private, loopback, link-local, broadcast, documentation or
\* unspecified networks; the address of a dotted quad is the one written.
C17_IsLocalClassifies ==
    \A a \in IPv4Accepted :
        /\ is_local(a)
              <=> \E n \in LocalNets : InNet(get_ipv4_address(a), n[1], n[2])
        /\ IsDottedQuadInput(input) =>
              get_ipv4_address(a)
                 = [k \in 1..4 |-> DecimalValue(Split(HostPart(input), ".")[k])]
        /\ must(validator.local) => is_local(a)
        /\ not_allow(validator.local) => ~is_local(a)

\* "172.16.0.1" is local and "172.32.0.1" is accepted as not local.
C17_Witness ==
    \E a \in IPv4Accepted :
        \/ /\ input = Ipv4Addr_to_string(<<172, 32, 0, 1>>)
           /\ validator.local = "NotAllow" /\ ~is_local(a)
        \/ /\ input = Ipv4Addr_to_string(<<172, 16, 0, 1>>)
           /\ validator.local = "Must" /\ is_local(a)

\* The answer of is_ipv4, once it has been called.
IsIPv4Answers ==
    IF validator \in IPv4Validators /\ out.is_ipv4.called
    THEN {out.is_ipv4.r}
    ELSE {}

\* The input has the shape of a dotted quad, four groups of one to three
\* digits and a port suffix or none, with a group that exceeds 255.
HasOctetOutOfRange(s) ==
    /\ Len(Split(HostPart(s), ".")) = 4
    /\ \A k \in 1..4 :
          /\ Len(Split(HostPart(s), ".")[k]) \in 1..3
          /\ \A i \in 1..Len(Split(HostPart(s), ".")[k]) :
                IsDigit(Split(HostPart(s), ".")[k][i])
    /\ \E k \in 1..4 : DecimalValue(Split(HostPart(s), ".")[k]) > OctetMax

\* C18: a dotted quad with an octet above 255 is rejected by parse_string,
\* parse_str and is_ipv4 under every policy, as a format error.
C18_OctetOutOfRangeRejected ==
    (validator \in IPv4Validators /\ HasOctetOutOfRange(input)) =>
        /\ \A r \in IPv4Outcomes : ~r.ok /\ r.err = "IncorrectFormat"
        /\ \A b \in IsIPv4Answers : ~b

\* "999.1.1.1" has been rejected by all three entry points.
C18_Witness ==
    /\ validator \in IPv4Validators
    /\ input = <<"9", "9", "9", ".", "1", ".", "1", ".", "1">>
    /\ out.parse_string.called /\ out.parse_str.called /\ out.is_ipv4.called
    /\ ~out.parse_string.r.ok /\ ~out.parse_str.r.ok /\ ~out.is_ipv4.r

---------------------------------------------------------------------------
(* No panic                                                                *)

\* The results of every call made so far that returns a descriptor or a
\* wrapper value.
AllOutcomes ==
    {out[op].r : op \in {o \in DOMAIN out \ {"wrapper", "is_domain", "is_ipv4"} :
                            out[o].called}}

WithPortTypes == {"DomainLocalhostableWithPort", "DomainUnlocalhostableWithPort"}

\* C19: no call panics; no accessor of a returned descriptor or wrapped
\* value slices out of bounds or off a character boundary; get_port() of the
\* two WithPort types of Domain never unwraps None.
C19_NoPanic ==
    /\ \A r \in AllOutcomes : r.err # "panic"
    /\ validator \in DomainValidators =>
          \A d \in {r.v : r \in {x \in AllOutcomes : x.ok}} :
              /\ ~get_top_level_domain_panics(d)
              /\ ~get_domain_panics(d)
              /\ ~get_sub_domain_panics(d)
              /\ ~get_full_domain_without_port_panics(d)
    /\ validator \in IPv4Validators =>
          \A a \in {r.v : r \in {x \in AllOutcomes : x.ok}} :
              ~get_full_ipv4_without_port_panics(a)
    /\ (/\ validator \in DomainValidators
        /\ "wrapper" \in DOMAIN out
        /\ out.wrapper \in WithPortTypes) =>
          \A w \in DomainWrapped : ~get_port_unwrap_panics(w)

\* A DomainLocalhostableWithPort has been built by from_domain and by
\* from_str from a three-label input with port 80: get_port() unwraps
\* Some(80) and the sub-domain is sliced out of the text.
C19_Witness ==
    /\ validator \in DomainValidators
    /\ "wrapper" \in DOMAIN out
    /\ out.wrapper = "DomainLocalhostableWithPort"
    /\ out.from_domain.called /\ out.from_domain.r.ok
    /\ out.from_str.called /\ out.from_str.r.ok
    /\ get_port(out.from_domain.r.v) = Some(80)
    /\ get_sub_domain(out.from_domain.r.v) = Some(<<"a">>)

---------------------------------------------------------------------------
(* is_domain and is_ipv4 against the parse functions                       *)

\* The validator is the one the wrapper type of this state creates.
IsWrapperValidator ==
    /\ "wrapper" \in DOMAIN out
    /\ IF validator \in DomainValidators
       THEN validator = create_validator(out.wrapper)
       ELSE validator = ipv4_create_validator(out.wrapper)

---------------------------------------------------------------------------
(* IPv4: the order of the checks                                           *)

\* The address the input text denotes: the quad written, or the IPv4
\* address embedded in the IPv6 literal; None when it denotes none.
InputAddress(s) ==
    IF IsDottedQuadInput(s)
    THEN Some([k \in 1..4 |-> DecimalValue(Split(HostPart(s), ".")[k])])
    ELSE IF IsBracketedInput(s)
    THEN to_ipv4(Ipv6Addr_from_str(Slice(s, IPV6_PORT_RE(s).g1.start,
                                         IPV6_PORT_RE(s).g1.end)).v)
    ELSE IF IsBareIPv6Input(s) /\ IPV6_RE(s).matched
    THEN to_ipv4(Ipv6Addr_from_str(s).v)
    ELSE None

InputIsLocal(s) ==
    \E n \in LocalNets : InNet(InputAddress(s).v, n[1], n[2])

\* The digits of the port suffix of a dotted or bracketed input.
IPv4PortDigits(s) ==
    IF IsDottedQuadInput(s) THEN PortDigits(s) ELSE BracketPortDigits(s)

ViolatesFamilyPolicy(v, s) ==
    \/ must(v.ipv6) /\ IsDottedQuadInput(s)
    \/ not_allow(v.ipv6) /\ ~IsDottedQuadInput(s)

ViolatesLocalPolicy(v, s) ==
    \/ must(v.local) /\ ~InputIsLocal(s)
    \/ not_allow(v.local) /\ InputIsLocal(s)

LocalErrors == {"LocalNotFound", "LocalNotAllow"}

PortErrors == {"PortNotFound", "PortNotAllow", "IncorrectPort"}

\* C21 as stated: for an input that denotes an address and meets the
\* family and port policies, local = Must gives LocalNotFound for an
\* address that is not local and local = NotAllow gives LocalNotAllow for a
\* local one; local = Allow never gives a locality error; an input that
\* breaks both the port policy and the locality policy gets the port error.
C21_LocalPolicyLast ==
    \A r \in IPv4Outcomes :
        /\ validator.local = "Allow" => r.err \notin LocalErrors
        /\ (InputAddress(input).some /\ ~ViolatesFamilyPolicy(validator, input)) =>
              /\ (/\ ~ViolatesIPv4PortPolicy(validator, input)
                  /\ IPv4HasPortSuffix(input)
                        => parse_u16(IPv4PortDigits(input)).some) =>
                    /\ (must(validator.local) /\ ~InputIsLocal(input))
                          => r.err = "LocalNotFound"
                    /\ (not_allow(validator.local) /\ InputIsLocal(input))
                          => r.err = "LocalNotAllow"
                    /\ ~ViolatesLocalPolicy(validator, input) => r.ok
              /\ (/\ ViolatesIPv4PortPolicy(validator, input)
                  /\ ViolatesLocalPolicy(validator, input))
                    => r.err \in PortErrors

FamilyErrors == {"IPv6NotFound", "IPv6NotAllow"}

\* C22 as stated: under ipv6 = Must a dotted quad is rejected with
\* IPv6NotFound; under ipv6 = NotAllow a valid IPv6 literal, bare or
\* bracketed, is rejected with IPv6NotAllow and a dotted quad fares as under
\* ipv6 = Allow; under ipv6 = Allow no family error is returned.
C22_FamilyPolicy ==
    \A r \in IPv4Outcomes :
        /\ (must(validator.ipv6) /\ IsDottedQuadInput(input))
              => (~r.ok /\ r.err = "IPv6NotFound")
        /\ (not_allow(validator.ipv6)
              /\ (IsBracketedInput(input) \/ IsBareIPv6Input(input)))
              => (~r.ok /\ r.err = "IPv6NotAllow")
        /\ (not_allow(validator.ipv6) /\ IsDottedQuadInput(input))
              => /\ r.ok = is_ipv4([validator EXCEPT !.ipv6 = "Allow"], input)
                 /\ r.err \notin FamilyErrors
        /\ validator.ipv6 = "Allow" => r.err \notin FamilyErrors

\* The input is a valid IPv6 literal, bare or bracketed, whose address
\* embeds no IPv4 address.
IsIrreducibleIPv6(s) ==
    /\ IsBracketedInput(s) \/ (IsBareIPv6Input(s) /\ IPV6_RE(s).matched)
    /\ ~InputAddress(s).some

\* C23 as stated: whenever ipv6 is Allow or Must, an IPv6 literal whose
\* address embeds no IPv4 address is rejected with IncorrectFormat.
C23_IrreducibleIsIncorrectFormat ==
    \A r \in IPv4Outcomes :
        (allow(validator.ipv6) /\ IsIrreducibleIPv6(input))
            => (~r.ok /\ r.err = "IncorrectFormat")

---------------------------------------------------------------------------
(* The range of the port                                                   *)

\* One to five digits whose decimal value does not fit 16 bits.
IsOverflowingPort(ds) ==
    /\ Len(ds) \in 1..PortDigitsMax
    /\ \A i \in 1..Len(ds) : IsDigit(ds[i])
    /\ DecimalValue(ds) > U16Max

\* An input of the domain grammar with a host of at most 255 bytes that is
\* "localhost" or has at least two labels, whatever its port suffix.
WellFormedHost(s) ==
    /\ DOMAIN_RE(s).matched
    /\ HostLen(s) <= HostMax
    /\ HostIsLocalhost(s) \/ Len(SplitDots(HostPart(s))) >= 2

\* C24 as stated: an input whose port suffix has a value above 65535 is
\* never accepted, and under port = Allow or Must the error is
\* IncorrectPort when the host is well formed (DomainValidator) or the
\* address is one the family policy admits (IPv4Validator); the port of an
\* accepted input with a port suffix is the decimal value of its digits, at
\* most 65535.
C24_PortRange ==
    /\ \A r \in DomainOutcomes :
          /\ (HasPortSuffix(input) /\ IsOverflowingPort(PortDigits(input))) =>
                /\ ~r.ok
                /\ (allow(validator.port) /\ WellFormedHost(input))
                      => r.err = "IncorrectPort"
          /\ (r.ok /\ HasPortSuffix(input)) =>
                /\ get_port(r.v) = Some(DecimalValue(PortDigits(input)))
                /\ r.v.port \in 0..U16Max
    /\ \A r \in IPv4Outcomes :
          /\ (IPv4HasPortSuffix(input) /\ IsOverflowingPort(IPv4PortDigits(input))) =>
                /\ ~r.ok
                /\ (/\ allow(validator.port)
                    /\ InputAddress(input).some
                    /\ ~ViolatesFamilyPolicy(validator, input))
                      => r.err = "IncorrectPort"
          /\ (r.ok /\ IPv4HasPortSuffix(input)) =>
                /\ ipv4_get_port(r.v) = Some(DecimalValue(IPv4PortDigits(input)))
                /\ r.v.port \in 0..U16Max

---------------------------------------------------------------------------
(* Domain: the length of a label                                           *)

\* C25 as stated: every label of an accepted input is 1 to 63 bytes long,
\* and an input with a label longer than 63 bytes is rejected with
\* IncorrectFormat.
C25_LabelBytes ==
    \A r \in DomainOutcomes :
        /\ r.ok => \A i \in 1..Len(InputLabels) : Len(InputLabels[i]) \in 1..LabelMax
        /\ (\E i \in 1..Len(InputLabels) : Len(InputLabels[i]) > LabelMax)
              => (~r.ok /\ r.err = "IncorrectFormat")

---------------------------------------------------------------------------
(* Domain: the top-level label and localhost                               *)

\* C26: get_top_level_domain() of a returned descriptor is None exactly
\* when is_localhost() is true; a descriptor without a top-level label
\* comes from the one label "localhost" in any letter case, and one with a
\* top-level label from a host of at least two labels.
C26_NoTopLevelIffLocalhost ==
    \A d \in DomainAccepted :
        /\ (get_top_level_domain(d) = None) <=> is_localhost(d)
        /\ ~get_top_level_domain(d).some =>
              /\ to_lowercase(get_domain(d)) = localhost
              /\ HostIsLocalhost(input)
        /\ get_top_level_domain(d).some => Len(InputLabels) >= 2

\* "localhost" with a port has been accepted: no top-level label, and
\* is_localhost() is true.
C26_Witness ==
    \E d \in DomainAccepted :
        /\ is_localhost(d)
        /\ get_top_level_domain(d) = None
        /\ get_port(d).some
        /\ out.parse_string.called /\ out.parse_str.called

---------------------------------------------------------------------------
(* validated_customized_ranged_number!(Name, t, min, max)                  *)

\* The unsigned types of the model, by their width in bits.
NumberBits == {8, 16}

MaxOf(bits) == 2 ^ bits - 1

\* number_as(): the primitive cast to an unsigned type of the given width.
number_as(n, bits) == n % (2 ^ bits)

\* str::parse::<t>() for an unsigned t: an optional "+" and one or more
\* digits, with a value that fits t; the error is ParseError.
parse_unsigned(text, bits) ==
    IF /\ Len(text) >= 1
       /\ text[1] = "+"
       /\ Len(text) >= 2
       /\ \A i \in 2..Len(text) : IsDigit(text[i])
       /\ DecimalValue(Tail(text)) <= MaxOf(bits)
    THEN Ok(DecimalValue(Tail(text)))
    ELSE IF /\ Len(text) >= 1
            /\ \A i \in 1..Len(text) : IsDigit(text[i])
            /\ DecimalValue(text) <= MaxOf(bits)
    THEN Ok(DecimalValue(text))
    ELSE Err("ParseError", 0)

\* The range check of the three blocks of the macro.
in_range(T, n) ==
    IF n >= T.min /\ n <= T.max THEN Ok(n) ELSE Err("OutRange", 0)

\* The block of from_string and from_str on the parsed text.
number_parsed(T, parsed) ==
    IF ~parsed.ok THEN parsed ELSE in_range(T, parsed.v)

\* Name::from_number(n: t)
number_from_number(T, n) == in_range(T, n)

\* <Name as ValidatedNumberWrapper<U>>::from_number(n: U)
wrapper_from_number(T, n) == number_from_number(T, number_as(n, T.bits))

\* Name::from_str
number_from_str(T, text) == number_parsed(T, parse_unsigned(text, T.bits))

\* Name::from_string
number_from_string(T, text) == number_parsed(T, parse_unsigned(text, T.bits))

\* The generated types of the model: Score of the crate documentation
\* (u8, 0, 100), a u8 range off zero and a u16 range.
RangedNumberTypes ==
    {[bits |-> 8, min |-> 0, max |-> 100],
     [bits |-> 8, min |-> 10, max |-> 20],
     [bits |-> 16, min |-> 100, max |-> 300]}

\* The numbers supplied, each with the width of its own type.
NumberValues == {0, 9, 10, 20, 80, 100, 101, 255, 256, 266, 300, 356, 65535}

Numbers == {x \in [n : NumberValues, bits : NumberBits] : x.n <= MaxOf(x.bits)}

NumberTexts ==
    {to_string(n) : n \in NumberValues}
        \cup {<<"0", "8", "0">>, <<"+", "8", "0">>, <<"-", "1">>, <<>>,
              <<"8", "a">>, <<"+">>, <<"6", "5", "5", "3", "6">>}

NumberNotCalled == [called |-> FALSE, r |-> Err("", 0)]

InitNumber ==
    /\ validator \in RangedNumberTypes
    /\ input \in [number : Numbers, text : {<<"8", "0">>}]
                    \cup [number : {[n |-> 80, bits |-> 8]}, text : NumberTexts]
    /\ out = [from_number |-> NumberNotCalled,
              wrapper_from_number |-> NumberNotCalled,
              from_str |-> NumberNotCalled, from_string |-> NumberNotCalled]

\* Name::from_number takes a t: the number supplied has the type's width.
NumberFromNumber ==
    /\ validator \in RangedNumberTypes
    /\ ~out.from_number.called
    /\ input.number.bits = validator.bits
    /\ out' = [out EXCEPT !.from_number =
                 Called(number_from_number(validator, input.number.n))]
    /\ UNCHANGED <<validator, input>>

WrapperFromNumber ==
    /\ validator \in RangedNumberTypes
    /\ ~out.wrapper_from_number.called
    /\ out' = [out EXCEPT !.wrapper_from_number =
                 Called(wrapper_from_number(validator, input.number.n))]
    /\ UNCHANGED <<validator, input>>

NumberFromStr ==
    /\ validator \in RangedNumberTypes
    /\ ~out.from_str.called
    /\ out' = [out EXCEPT !.from_str = Called(number_from_str(validator, input.text))]
    /\ UNCHANGED <<validator, input>>

NumberFromString ==
    /\ validator \in RangedNumberTypes
    /\ ~out.from_string.called
    /\ out' = [out EXCEPT !.from_string =
                 Called(number_from_string(validator, input.text))]
    /\ UNCHANGED <<validator, input>>

NextNumber ==
    NumberFromNumber \/ WrapperFromNumber \/ NumberFromStr \/ NumberFromString

SpecNumber == InitNumber /\ [][NextNumber]_vars

\* The text is one or more digits.
IsDecimalText(text) ==
    Len(text) >= 1 /\ \A i \in 1..Len(text) : IsDigit(text[i])

\* The value a text accepted by parse denotes.
TextValue(text) ==
    IF Len(text) >= 1 /\ text[1] = "+" THEN DecimalValue(Tail(text))
    ELSE DecimalValue(text)

InRange(T, n) == T.min <= n /\ n <= T.max

\* C27 as stated: construction from a number succeeds, with that number,
\* exactly when the number supplied lies in [min, max], and otherwise gives
\* OutRange, also through ValidatedNumberWrapper::from_number with a number
\* of a wider type; from_str and from_string accept the decimal texts of
\* the values in [min, max] and no text of another value.
C27_RangedNumber ==
    /\ out.from_number.called =>
          IF InRange(validator, input.number.n)
          THEN out.from_number.r = Ok(input.number.n)
          ELSE out.from_number.r = Err("OutRange", 0)
    /\ out.wrapper_from_number.called =>
          IF InRange(validator, input.number.n)
          THEN out.wrapper_from_number.r = Ok(input.number.n)
          ELSE out.wrapper_from_number.r = Err("OutRange", 0)
    /\ \A op \in {"from_str", "from_string"} :
          out[op].called =>
             /\ (IsDecimalText(input.text) /\ InRange(validator, DecimalValue(input.text)))
                   => out[op].r = Ok(DecimalValue(input.text))
             /\ out[op].r.ok =>
                   /\ InRange(validator, TextValue(input.text))
                   /\ out[op].r.v = TextValue(input.text)
             /\ (IsDecimalText(input.text) /\ ~InRange(validator, DecimalValue(input.text)))
                   => ~out[op].r.ok

---------------------------------------------------------------------------
(* validated_customized_ranged_length_vec!(Name, min, max)                 *)

\* What a formatter has received: the pieces written, in order.  A piece is
\* a literal text or the rendering of one element by its own Display or
\* Debug.
Piece(trait, n) == [fmt |-> trait, of |-> n]

\* for n in self.v.iter().skip(1) { fmt(n, f)?; f.write_str(", ")?; }
RECURSIVE fmt_skip_1(_, _, _)
fmt_skip_1(trait, v, i) ==
    IF i > Len(v) THEN <<>>
    ELSE <<Piece(trait, v[i]), ", ">> \o fmt_skip_1(trait, v, i + 1)

\* The body both fmt functions share after their opening text.
fmt_elements(trait, v) ==
    IF Len(v) > 0
    THEN fmt_skip_1(trait, v, 2) \o <<Piece(trait, v[Len(v)])>> \o <<"]">>
    ELSE <<"]">>

\* <Name<T> as Display>::fmt
fmt_display(v) == <<"[">> \o fmt_elements("Display", v)

\* <Name<T> as Debug>::fmt, with stringify!($name) written as "Name"
fmt_debug(v) == <<"Name[">> \o fmt_elements("Debug", v)

\* A mutation of from_vec: the lower bound is tested first.
from_vec_underflow_first(T, input_vec) ==
    IF Len(input_vec) < T.min THEN Err("Underflow", <<>>)
    ELSE IF Len(input_vec) > T.max THEN Err("Overflow", <<>>)
    ELSE Ok(input_vec)

\* Name::from_vec with the block of the ranged-length macro.
from_vec(T, input_vec) ==
    IF Len(input_vec) > T.max THEN Err("Overflow", <<>>)
    ELSE IF Len(input_vec) < T.min THEN Err("Underflow", <<>>)
    ELSE Ok(input_vec)

\* Name::from_str and Name::from_string of the macro arm without parsers.
vec_from_str(T, text) == Err("NotSupport", <<>>)

vec_from_string(T, text) == Err("NotSupport", <<>>)

as_vec(name) == name

into_vec(name) == name

\* The generated types of the model by (min, max): Names of the crate
\* documentation (1, 5), an exact length, one that admits the empty vector
\* and one whose bounds are crossed.
RangedLengthVecTypes ==
    {[min |-> 1, max |-> 5], [min |-> 2, max |-> 2], [min |-> 0, max |-> 3],
     [min |-> 4, max |-> 1]}

MaxVecLen == 6

VecElements == {"Ron", "Magic Len"}

Vecs == UNION {[1..k -> VecElements] : k \in 0..MaxVecLen}

VecNotCalled == [called |-> FALSE, r |-> Err("", <<>>)]

FmtNotCalled == [called |-> FALSE, r |-> <<>>]

InitVec ==
    /\ validator \in RangedLengthVecTypes
    /\ input \in [vec : Vecs, text : {"Ron"}]
    /\ out = [from_vec |-> VecNotCalled, from_str |-> VecNotCalled,
              from_string |-> VecNotCalled, display |-> FmtNotCalled,
              debug |-> FmtNotCalled]

FromVec ==
    /\ validator \in RangedLengthVecTypes
    /\ ~out.from_vec.called
    /\ out' = [out EXCEPT !.from_vec = Called(from_vec(validator, input.vec))]
    /\ UNCHANGED <<validator, input>>

VecFromStr ==
    /\ validator \in RangedLengthVecTypes
    /\ ~out.from_str.called
    /\ out' = [out EXCEPT !.from_str = Called(vec_from_str(validator, input.text))]
    /\ UNCHANGED <<validator, input>>

VecFromString ==
    /\ validator \in RangedLengthVecTypes
    /\ ~out.from_string.called
    /\ out' = [out EXCEPT !.from_string =
                 Called(vec_from_string(validator, input.text))]
    /\ UNCHANGED <<validator, input>>

\* format!("{}", names) of the value from_vec returned
FmtDisplay ==
    /\ validator \in RangedLengthVecTypes
    /\ out.from_vec.called /\ out.from_vec.r.ok
    /\ ~out.display.called
    /\ out' = [out EXCEPT !.display = Called(fmt_display(as_vec(out.from_vec.r.v)))]
    /\ UNCHANGED <<validator, input>>

\* format!("{:?}", names) of the value from_vec returned
FmtDebug ==
    /\ validator \in RangedLengthVecTypes
    /\ out.from_vec.called /\ out.from_vec.r.ok
    /\ ~out.debug.called
    /\ out' = [out EXCEPT !.debug = Called(fmt_debug(as_vec(out.from_vec.r.v)))]
    /\ UNCHANGED <<validator, input>>

NextVec == FromVec \/ VecFromStr \/ VecFromString \/ FmtDisplay \/ FmtDebug

SpecVec == InitVec /\ [][NextVec]_vars

\* e1, ", ", e2, ..., ", ", en
RECURSIVE Separated(_, _)
Separated(trait, v) ==
    IF Len(v) = 0 THEN <<>>
    ELSE IF Len(v) = 1 THEN <<Piece(trait, v[1])>>
    ELSE <<Piece(trait, v[1]), ", ">> \o Separated(trait, Tail(v))

\* C28 as stated: Display writes "[", the elements once each and in order
\* with ", " between them, and "]" ("[]" for the empty vector); Debug writes
\* the elements the same way after its opening text.
C28_DisplayRendersEach ==
    /\ out.display.called =>
          out.display.r = <<"[">> \o Separated("Display", input.vec) \o <<"]">>
    /\ out.debug.called =>
          out.debug.r = <<"Name[">> \o Separated("Debug", input.vec) \o <<"]">>

\* C29: from_vec gives Overflow when the vector is longer than max,
\* otherwise Underflow when it is shorter than min, otherwise a value whose
\* as_vec and into_vec are the vector given; from_str and from_string give
\* NotSupport.
C29_FromVecLength ==
    /\ out.from_vec.called =>
          IF Len(input.vec) > validator.max
          THEN out.from_vec.r = Err("Overflow", <<>>)
          ELSE IF Len(input.vec) < validator.min
          THEN out.from_vec.r = Err("Underflow", <<>>)
          ELSE /\ out.from_vec.r.ok
               /\ as_vec(out.from_vec.r.v) = input.vec
               /\ into_vec(out.from_vec.r.v) = input.vec
    /\ out.from_str.called => out.from_str.r = Err("NotSupport", <<>>)
    /\ out.from_string.called => out.from_string.r = Err("NotSupport", <<>>)

\* Under crossed bounds (min 4, max 1) a vector of two elements has given
\* Overflow, and both text constructors have answered.
C29_Witness ==
    /\ validator = [min |-> 4, max |-> 1]
    /\ Len(input.vec) = 2
    /\ out.from_vec.called /\ out.from_vec.r.err = "Overflow"
    /\ out.from_str.called /\ out.from_string.called

---------------------------------------------------------------------------
(* ValidateUnsignedInteger: the default methods                            *)

\* An unsigned integer is the sequence of its bytes, least significant
\* first; its type fixes the length.
SizeOf(ty, pointer_width) ==
    CASE ty = "u8" -> 1
      [] ty = "u16" -> 2
      [] ty = "u32" -> 4
      [] ty = "u64" -> 8
      [] ty = "u128" -> 16
      [] ty = "usize" -> pointer_width \div 8

\* i as T for an unsigned T of size bytes: the low bytes, zero-extended.
as_cast(i, size) == [k \in 1..size |-> IF k <= Len(i) THEN i[k] ELSE 0]

\* A mutation of usize_target: u16 on every target.
usize_target_u16(pointer_width) == "u16"

\* The type parse_usize and validate_usize cast to, by
\* cfg(target_pointer_width).
usize_target(pointer_width) ==
    IF pointer_width = 32 THEN "u32"
    ELSE IF pointer_width = 16 THEN "u16"
    ELSE "u64"

\* The type the default method of ty casts to and calls.
delegate(ty, pointer_width) ==
    CASE ty = "u8" -> "u16"
      [] ty = "u16" -> "u32"
      [] ty = "u32" -> "u64"
      [] ty = "u64" -> "u128"
      [] ty = "usize" -> usize_target(pointer_width)

\* The implementors of the model: parse_u128 and validate_u128 accept the
\* values that fit in limit bytes.
Implementors == [limit : {1, 2, 4, 16}]

Fits(T, i) == \A k \in 1..Len(i) : k > T.limit => i[k] = 0

impl_parse_u128(T, i) == IF Fits(T, i) THEN Ok(i) ELSE Err("Error", <<>>)

impl_validate_u128(T, i) == IF Fits(T, i) THEN Ok(<<>>) ELSE Err("Error", <<>>)

DelegatingTypes == {"u8", "u16", "u32", "u64", "usize"}

ByteValues == {0, 255}

UIntInputs(pointer_width) ==
    UNION {[method : {"parse", "validate"}, ty : {ty},
            i : [1..SizeOf(ty, pointer_width) -> ByteValues]]
              : ty \in DelegatingTypes}

\* A call of one of the methods is under way: out is the method reached,
\* its argument, the number of delegations made, and the result once the
\* u128 method has returned.
InitUInt ==
    /\ validator \in [impl : Implementors, pointer_width : {16, 32, 64}]
    /\ input \in UIntInputs(validator.pointer_width)
    /\ out = [at |-> input.ty, arg |-> input.i, hops |-> 0, done |-> FALSE,
              r |-> Err("", <<>>)]

\* The default method of ty under way: cast and call the next method.
Delegates(method, ty) ==
    /\ input.method = method
    /\ ~out.done
    /\ out.at = ty
    /\ out' = [out EXCEPT
                 !.at = delegate(ty, validator.pointer_width),
                 !.arg = as_cast(out.arg,
                                 SizeOf(delegate(ty, validator.pointer_width),
                                        validator.pointer_width)),
                 !.hops = out.hops + 1]
    /\ UNCHANGED <<validator, input>>

ParseU8 == Delegates("parse", "u8")

ParseU16 == Delegates("parse", "u16")

ParseU32 == Delegates("parse", "u32")

ParseU64 == Delegates("parse", "u64")

ParseUsize == Delegates("parse", "usize")

ParseU128 ==
    /\ input.method = "parse"
    /\ ~out.done
    /\ out.at = "u128"
    /\ out' = [out EXCEPT !.done = TRUE,
                          !.r = impl_parse_u128(validator.impl, out.arg)]
    /\ UNCHANGED <<validator, input>>

ValidateU8 == Delegates("validate", "u8")

ValidateU16 == Delegates("validate", "u16")

ValidateU32 == Delegates("validate", "u32")

ValidateU64 == Delegates("validate", "u64")

ValidateUsize == Delegates("validate", "usize")

ValidateU128 ==
    /\ input.method = "validate"
    /\ ~out.done
    /\ out.at = "u128"
    /\ out' = [out EXCEPT !.done = TRUE,
                          !.r = impl_validate_u128(validator.impl, out.arg)]
    /\ UNCHANGED <<validator, input>>

NextUInt ==
    \/ ParseU8 \/ ParseU16 \/ ParseU32 \/ ParseU64 \/ ParseUsize \/ ParseU128
    \/ ValidateU8 \/ ValidateU16 \/ ValidateU32 \/ ValidateU64
    \/ ValidateUsize \/ ValidateU128

SpecUInt == InitUInt /\ [][NextUInt]_vars

\* The 128-bit value of the number the call was made with.
ZeroExtended(i) == [k \in 1..16 |-> IF k <= Len(i) THEN i[k] ELSE 0]

\* C30: at every step of the chain the argument is the number the call was
\* made with, zero-extended to the type of the method reached; the result
\* is what parse_u128 (validate_u128) returns for that number; the chain
\* reaches the u128 method after at most four delegations and then returns.
C30_DefaultsReachU128 ==
    /\ Len(out.arg) = SizeOf(out.at, validator.pointer_width)
    /\ ZeroExtended(out.arg) = ZeroExtended(input.i)
    /\ out.done =>
          out.r = IF input.method = "parse"
                  THEN impl_parse_u128(validator.impl, ZeroExtended(input.i))
                  ELSE impl_validate_u128(validator.impl, ZeroExtended(input.i))
    /\ out.hops <= 4
    /\ out.done \/ ENABLED NextUInt

\* parse_usize on a 64-bit target has returned through parse_u64 and
\* parse_u128 what parse_u128 returns for a number with its top byte set.
C30_Witness ==
    /\ validator.pointer_width = 64
    /\ input.method = "parse" /\ input.ty = "usize"
    /\ input.i[8] = 255
    /\ out.done /\ out.hops = 2
    /\ out.r = impl_parse_u128(validator.impl, ZeroExtended(input.i))
    /\ validator.impl.limit = 16 /\ out.r.ok

=============================================================================
